---- MODULE Spec2Model ----
(***************************************************************************)
(* Streaming transcript aggregator of claude-code-telegram.                *)
(*                                                                         *)
(*   - ClaudeAgentClient.stream_message (src/src/claude/agent.py): the     *)
(*     per-session block tracker that turns SDK messages into StreamUpdate *)
(*     objects and skips blocks it has already surfaced.                   *)
(*   - handle_text_message.stream_handler                                  *)
(*     (src/src/bot/handlers/message.py): the per-turn Event Log and the   *)
(*     correlation of tool results with tool entries.                      *)
(*   - handle_text_message._update_stream_message (same file): the cut of  *)
(*     the transcript text into chunks, the chunk messages it sends and    *)
(*     edits, and the throttle of stream_handler in front of it.           *)
(*                                                                         *)
(* Strings are sequences of characters, so that slicing and concatenation  *)
(* are computed as the code computes them.                                 *)
(***************************************************************************)
EXTENDS Integers, Sequences, FiniteSets, TLC

VARIABLES
    \* ---- ClaudeAgentClient ----
    session_states,        \* self.session_states: session_id -> state dict
    session_id,            \* session_id argument of the running stream_message
    restart,               \* restart argument of the running stream_message
    pc,                    \* position of the running stream_message generator
    current_block_index,   \* local cursor of the running stream_message
    yielded,               \* StreamUpdates yielded by the current run, in order
    left,                  \* how the current run left the message loop
    \* ---- the SDK side of the session (environment) ----
    transcript,            \* content blocks of the session's conversation so far
    mode,                  \* "replay": the stream replays the transcript first
    replayed,              \* number of transcript blocks replayed in this run
    base,                  \* Len(transcript) when the run started
    seen0,                 \* total_blocks_seen when the run started
    cur0,                  \* current_text_content when the run started
    turn,                  \* number of stream_message runs started
    committed,             \* blocks consumed by a run that reached its ResultMessage
    \* ---- handle_text_message.stream_handler ----
    events,                \* stream_state["events"]
    handled,               \* the StreamUpdates passed to stream_handler this turn
    before,                \* stream_state["events"] when the last call started
    \* ---- handle_text_message._update_stream_message and the chat ----
    messages,              \* stream_state["messages"]: handles of the chunk messages
    message_contents,      \* stream_state["message_contents"]
    current_message,       \* stream_state.get("current_message"): 0 is None
    last_update_time,      \* stream_state["last_update_time"]: <<>> while the key is absent
    current_time,          \* loop time of the last stream_handler call, in tenths of a second
    chat,                  \* texts of the messages the bot has in the chat, by handle
    api_calls,             \* reply_text and edit_text calls of the last stream_handler call
    renders,               \* _update_stream_message calls of the last stream_handler call
    edit_failed,           \* chunk indices whose edit_text raised in an earlier call of the turn
    phase,                 \* "streaming" while run_command runs, then "done" or "failed"
                           \* ("raising" when an exception leaves stream_handler)
    \* ---- handle_text_message: the turn around run_command ----
    step,                  \* position of handle_text_message
    text_messages,         \* handle_text_message calls started
    typing_task,           \* "none", "running", "cancelling" (cancel() called) or "done"
    typing_actions,        \* send_action("typing") calls of keep_typing in this turn
    claude_session_id,     \* state["claude_session_id"] of the topic ("" is None)
    agent_session,         \* session id the agent works under in this turn
    claude_response,       \* is the local claude_response bound
    features,              \* is a conversation enhancer configured
    streamed,              \* has the turn streamed chunk messages
    error_icon,            \* does a formatted message hold one of the icons of line 500
    error_messages,        \* error messages the turn has shown to the user
    responses,             \* formatted responses the turn has shown to the user
    \* ---- overlapping calls of _update_stream_message ----
    update_lock,           \* stream_state["update_lock"].locked()
    task_pc,               \* position of each task that calls _update_stream_message
    pending,               \* chunks each task has still to send or edit
    render_of,             \* number of the render each task is in (0: none)
    render_calls,          \* _update_stream_message calls that have entered the region
    writes,                \* render numbers of the writes to messages/message_contents
    \* ---- turns submitted for sessions ----
    runs,                  \* each caller's run: position, session, blocks processed
    stream_totals,          \* total_blocks_seen of each session's state
    \* ---- ContextManager ----
    chat_data,             \* context.chat_data of each chat
    returned,              \* what the last ContextManager get returned (at most one entry)
    written,               \* the value last set for each chat, thread and field (its default before)
    ctx_ops,                \* ContextManager calls made
    \* ---- PinnedMessageManager.update_status ----
    pin_lock,              \* self._update_lock.locked()
    pin_pc,                \* position of each task that calls update_status
    pin_key,               \* context_key of each task's call
    pin_msg,               \* message_id of the message the call has sent (0: none)
    pinned_ids,            \* state["pinned_message_id"] of each context key (0 is None)
    status_sent,           \* the status messages sent, by message_id: the context key of each
    status_edits,          \* message ids of the successful edit_message_text calls
    pin_edit_failures,     \* edit_message_text calls that raised, per context key
    pin_raced,             \* has a call for the key started while another was in flight and no message was pinned
    pin_calls,              \* update_status calls started
    \* ---- get_diff ----
    diff_request,          \* the last request of get_diff (at most one entry)
    diff_response          \* the answer to it (at most one entry)

agentVars == <<session_states, session_id, restart, pc, current_block_index, yielded, left>>
sdkVars == <<transcript, mode, replayed, base, seen0, cur0, turn, committed>>
handlerVars == <<events, handled, before>>
renderVars == <<messages, message_contents, current_message, last_update_time, current_time,
                chat, api_calls, renders, edit_failed, phase>>
turnVars == <<step, text_messages, typing_task, typing_actions, claude_session_id,
              agent_session, claude_response, features, streamed, error_icon, error_messages,
              responses>>
lockVars == <<update_lock, task_pc, pending, render_of, render_calls, writes>>
overlapVars == <<runs, stream_totals>>
contextVars == <<chat_data, returned, written, ctx_ops>>
pinVars == <<pin_lock, pin_pc, pin_key, pin_msg, pinned_ids, status_sent, status_edits, pin_edit_failures, pin_raced, pin_calls>>
diffVars == <<diff_request, diff_response>>
vars == <<agentVars, sdkVars, handlerVars, renderVars, turnVars, lockVars, overlapVars, contextVars, pinVars, diffVars>>

-----------------------------------------------------------------------------
(* Bounds of the model *)

MaxBlocks == 4        \* content blocks in a session's transcript
MaxTurns == 2         \* stream_message runs per session
MaxEvents == 4        \* StreamUpdates handled by stream_handler in a turn
MaxUpdates == 3       \* StreamUpdates of a turn whose renders are followed

MaxMessages == 2      \* handle_text_message calls
MaxTyping == 2        \* typing actions of keep_typing in a turn
MaxRenders == 3       \* overlapping _update_stream_message calls of a turn
MaxChunks == 2        \* chunks of one render
MaxSeen == 3          \* total_blocks_seen of a session

MaxCtxOps == 3        \* ContextManager calls

MaxPinCalls == 3      \* update_status calls

ToolIds == {"1", "2"}
PinTasks == {"p1", "p2"}
ContextKeys == {"k1", "k2"}
ChatIds == {1, 11}
ThreadIds == {0, 1}    \* message_thread_id: 0 is None
Fields == {"claude_session_id", "current_directory", "current_status", "session_started",
           "pinned_message_id"}
\* the second argument of state.get: "" and 0 are None, "approved" is
\* settings.approved_directory
Default(field) ==
    CASE field = "claude_session_id" -> ""
      [] field = "current_directory" -> "approved"
      [] field = "current_status" -> "ready"
      [] field = "session_started" -> FALSE
      [] field = "pinned_message_id" -> 0
AgentSessions == {"s1", "s2"}
Tasks == {"t1", "t2"}
Callers == {"c1", "c2"}
IdleRun == [pc |-> "idle", session |-> "", index |-> 0]
ToolNames == {"X"}
Sessions == {"s1"}

-----------------------------------------------------------------------------
(* Strings *)

\* texts of the TextBlocks of the model: "ab" extends "a", "a" does not extend "ab"
Texts == {<<"a">>, <<"a", "b">>}

\* Python's s[n:]
SliceFrom(s, n) == SubSeq(s, n + 1, Len(s))

IsPrefix(p, s) == Len(p) <= Len(s) /\ SubSeq(s, 1, Len(p)) = p

Max(a, b) == IF a >= b THEN a ELSE b

-----------------------------------------------------------------------------
(* SDK content blocks and StreamUpdate objects *)

TextBlock(t) == [type |-> "TextBlock", text |-> t]
ToolUseBlock(i, n) == [type |-> "ToolUseBlock", id |-> i, name |-> n]
ToolResultBlock(i, e) == [type |-> "ToolResultBlock", tool_use_id |-> i, is_error |-> e]
ThinkingBlock == [type |-> "ThinkingBlock"]

\* content blocks of an AssistantMessage
Blocks == {TextBlock(t) : t \in Texts}
          \cup {ToolUseBlock("1", n) : n \in ToolNames}
          \cup {ThinkingBlock}

\* contents of the UserMessage that follows a tool use: the tool's result, or
\* a block that is no tool result
UserContents(tool) == {<<TextBlock(<<"a">>)>>, <<ToolResultBlock(tool.id, FALSE)>>}

StreamUpdate(t, c, tc) == [type |-> t, content |-> c, tool_calls |-> tc]

ProgressUpdate == StreamUpdate("progress", <<>>, <<>>)
TextUpdate(delta) == StreamUpdate("assistant", delta, <<>>)
ToolCallUpdate(b) == StreamUpdate("assistant", <<>>, <<[name |-> b.name, id |-> b.id]>>)
ToolResultUpdate(rs) == StreamUpdate("tool_result", <<>>, rs)
ResultUpdate == StreamUpdate("result", <<>>, <<>>)
ErrorUpdate == StreamUpdate("error", <<>>, <<>>)

-----------------------------------------------------------------------------
(* ClaudeAgentClient.stream_message *)

NewSessionState == [total_blocks_seen |-> 0, current_text_content |-> <<>>]

\* a delta that repeats the text already surfaced
TextDeltaWhole(state, block) == block.text

\* delta = block.text[len(state["current_text_content"]):]
TextDelta(state, block) == SliceFrom(block.text, Len(state.current_text_content))

\* a tool branch that advances total_blocks_seen and keeps the text state
ProcessBlockKeepText(state, idx, block) ==
    IF idx < state.total_blocks_seen
    THEN [state |-> state, idx |-> idx + 1, out |-> <<>>]
    ELSE IF block.type = "TextBlock"
    THEN LET delta == SliceFrom(block.text, Len(state.current_text_content))
         IN  IF delta # <<>>
             THEN [state |-> [state EXCEPT !.current_text_content = block.text],
                   idx |-> idx + 1,
                   out |-> <<TextUpdate(delta)>>]
             ELSE [state |-> state, idx |-> idx + 1, out |-> <<>>]
    ELSE IF block.type = "ToolUseBlock"
    THEN [state |-> [state EXCEPT !.total_blocks_seen = idx + 1],
          idx |-> idx + 1,
          out |-> <<ToolCallUpdate(block)>>]
    ELSE [state |-> state, idx |-> idx, out |-> <<>>]

\* One iteration of "for block in msg.content": the session state, the cursor
\* and the updates yielded, for a block met at cursor idx.
ProcessBlock(state, idx, block) ==
    IF idx < state.total_blocks_seen
    THEN [state |-> state, idx |-> idx + 1, out |-> <<>>]
    ELSE IF block.type = "TextBlock"
    THEN LET delta == TextDelta(state, block)
         IN  IF delta # <<>>
             THEN [state |-> [state EXCEPT !.current_text_content = block.text],
                   idx |-> idx + 1,
                   out |-> <<TextUpdate(delta)>>]
             ELSE [state |-> state, idx |-> idx + 1, out |-> <<>>]
    ELSE IF block.type = "ToolUseBlock"
    THEN [state |-> [total_blocks_seen |-> idx + 1, current_text_content |-> <<>>],
          idx |-> idx + 1,
          out |-> <<ToolCallUpdate(block)>>]
    ELSE [state |-> state, idx |-> idx, out |-> <<>>]

\* tool_results of a UserMessage: one entry per ToolResultBlock of its content
RECURSIVE ToolResults(_)
ToolResults(content) ==
    IF content = <<>> THEN <<>>
    ELSE LET b == Head(content)
         IN  (IF b.type = "ToolResultBlock"
              THEN <<[tool_use_id |-> b.tool_use_id, is_error |-> b.is_error]>>
              ELSE <<>>) \o ToolResults(Tail(content))

\* a ResultMessage that leaves total_blocks_seen alone
MarkNoneSeen(state, idx) == state

\* state["total_blocks_seen"] = current_block_index on a ResultMessage
MarkAllSeen(state, idx) == [state EXCEPT !.total_blocks_seen = idx]

\* the content blocks the stream of this run has carried so far
Streamed == SubSeq(transcript, 1, replayed) \o SubSeq(transcript, base + 1, Len(transcript))

\* the SDK sends the UserMessage with a tool's result after the AssistantMessage
\* that carries the ToolUseBlock, once per tool use
AwaitsToolResult ==
    /\ Streamed # <<>>
    /\ Streamed[Len(Streamed)].type = "ToolUseBlock"
    /\ yielded[Len(yielded)].type # "tool_result"

\* the stream of this run follows the transcript index by index
Aligned == mode = "replay" \/ base = 0

Init ==
    /\ session_states = <<>>
    /\ session_id = "s1"
    /\ restart = FALSE
    /\ pc = "idle"
    /\ current_block_index = 0
    /\ yielded = <<>>
    /\ left = ""
    /\ transcript = <<>>
    /\ mode = "fresh"
    /\ replayed = 0
    /\ base = 0
    /\ seen0 = 0
    /\ cur0 = <<>>
    /\ turn = 0
    /\ committed = 0
    /\ events = <<>>
    /\ handled = <<>>
    /\ before = <<>>
    /\ messages = <<>>
    /\ message_contents = <<>>
    /\ current_message = 0
    /\ last_update_time = <<>>
    /\ current_time = 0
    /\ chat = <<>>
    /\ api_calls = <<>>
    /\ renders = 0
    /\ edit_failed = {}
    /\ phase = "streaming"
    /\ step = "start"
    /\ text_messages = 0
    /\ typing_task = "none"
    /\ typing_actions = 0
    /\ claude_session_id = ""
    /\ agent_session = ""
    /\ claude_response = FALSE
    /\ features = FALSE
    /\ streamed = FALSE
    /\ error_icon = FALSE
    /\ error_messages = 0
    /\ responses = 0
    /\ update_lock = FALSE
    /\ task_pc = [t \in Tasks |-> "idle"]
    /\ pending = [t \in Tasks |-> 0]
    /\ render_of = [t \in Tasks |-> 0]
    /\ render_calls = 0
    /\ writes = <<>>
    /\ runs = [c \in Callers |-> IdleRun]
    /\ stream_totals = [s \in AgentSessions |-> 0]
    /\ chat_data = [c \in ChatIds |-> <<>>]
    /\ returned = <<>>
    /\ written = [k \in ChatIds \X ThreadIds \X Fields |-> Default(k[3])]
    /\ ctx_ops = 0
    /\ pin_lock = FALSE
    /\ pin_pc = [p \in PinTasks |-> "idle"]
    /\ pin_key = [p \in PinTasks |-> ""]
    /\ pin_msg = [p \in PinTasks |-> 0]
    /\ pinned_ids = [k \in ContextKeys |-> 0]
    /\ status_sent = <<>>
    /\ status_edits = <<>>
    /\ pin_edit_failures = [k \in ContextKeys |-> 0]
    /\ pin_raced = [k \in ContextKeys |-> FALSE]
    /\ pin_calls = 0
    /\ diff_request = <<>>
    /\ diff_response = <<>>

\* lines 72-91: the client connects, the query is sent, the initial progress
\* is yielded and the session state is fetched or created
StartTurnWith(s, m, r) ==
    /\ pc \in {"idle", "done"}
    /\ turn < MaxTurns
    /\ m = "replay" => transcript # <<>>
    /\ LET states == IF s \in DOMAIN session_states
                     THEN session_states
                     ELSE session_states @@ (s :> NewSessionState)
       IN  /\ session_states' = states
           /\ seen0' = states[s].total_blocks_seen
           /\ cur0' = states[s].current_text_content
    /\ session_id' = s
    /\ restart' = r
    /\ pc' = "iter"
    /\ current_block_index' = 0
    /\ yielded' = <<ProgressUpdate>>
    /\ left' = ""
    /\ mode' = m
    /\ replayed' = 0
    /\ base' = Len(transcript)
    /\ turn' = turn + 1
    /\ UNCHANGED <<transcript, committed, handlerVars, renderVars, turnVars, lockVars, overlapVars, contextVars, pinVars, diffVars>>

\* lines 72-74, 172-178: connecting or sending the query raises
\* line 44: restart defaults to False
StartTurn(s, m) == StartTurnWith(s, m, FALSE)

StartRaise(s) ==
    /\ pc \in {"idle", "done"}
    /\ turn < MaxTurns
    /\ session_states' = session_states
    /\ session_id' = s
    /\ restart' = FALSE
    /\ pc' = "done"
    /\ current_block_index' = 0
    /\ yielded' = <<ErrorUpdate>>
    /\ left' = "connect"
    /\ mode' = "fresh"
    /\ replayed' = 0
    /\ base' = Len(transcript)
    /\ seen0' = IF s \in DOMAIN session_states
                THEN session_states[s].total_blocks_seen ELSE 0
    /\ cur0' = IF s \in DOMAIN session_states
               THEN session_states[s].current_text_content ELSE <<>>
    /\ turn' = turn + 1
    /\ UNCHANGED <<transcript, committed, handlerVars, renderVars, turnVars, lockVars, overlapVars, contextVars, pinVars, diffVars>>

\* lines 100-136 for one block of an AssistantMessage
HandleBlock(block) ==
    LET r == ProcessBlock(session_states[session_id], current_block_index, block)
    IN  /\ session_states' = [session_states EXCEPT ![session_id] = r.state]
        /\ current_block_index' = r.idx
        /\ yielded' = yielded \o r.out
        /\ UNCHANGED <<session_id, restart, pc, left, mode, base, seen0, cur0, turn, committed,
                       handlerVars, renderVars, turnVars, lockVars, overlapVars, contextVars, pinVars, diffVars>>

\* the stream replays the next block of the session's transcript
ReplayBlock ==
    /\ pc = "iter"
    /\ mode = "replay"
    /\ replayed < base
    /\ Len(transcript) = base
    /\ HandleBlock(transcript[replayed + 1])
    /\ replayed' = replayed + 1
    /\ UNCHANGED transcript

\* the stream carries a block the agent has just produced
NewBlock(block) ==
    /\ pc = "iter"
    /\ mode = "fresh" \/ replayed = base
    /\ Len(transcript) < MaxBlocks
    /\ HandleBlock(block)
    /\ transcript' = Append(transcript, block)
    /\ UNCHANGED replayed

\* lines 138-152
UserMessage ==
    /\ pc = "iter"
    /\ AwaitsToolResult
    /\ \E content \in UserContents(Streamed[Len(Streamed)]) :
          LET tool_results == ToolResults(content)
          IN  yielded' = IF tool_results # <<>>
                         THEN Append(yielded, ToolResultUpdate(tool_results))
                         ELSE yielded
    /\ UNCHANGED <<session_states, session_id, restart, pc, current_block_index, left, sdkVars,
                   handlerVars, renderVars, turnVars, lockVars, overlapVars, contextVars, pinVars, diffVars>>

\* lines 154-170
ResultMessage(is_error) ==
    /\ pc = "iter"
    /\ session_states' = [session_states EXCEPT ![session_id] =
                              MarkAllSeen(@, current_block_index)]
    /\ yielded' = Append(yielded, IF is_error THEN ErrorUpdate ELSE ResultUpdate)
    /\ pc' = "closing"
    /\ left' = "result"
    /\ committed' = IF Aligned THEN Max(committed, Len(Streamed)) ELSE committed
    /\ UNCHANGED <<session_id, restart, current_block_index, transcript, mode, replayed, base,
                   seen0, cur0, turn, handlerVars, renderVars, turnVars, lockVars, overlapVars, contextVars, pinVars, diffVars>>

\* line 93: receive_messages() is exhausted without a ResultMessage
StreamEnd ==
    /\ pc = "iter"
    /\ pc' = "closing"
    /\ left' = "end"
    /\ UNCHANGED <<session_states, session_id, restart, current_block_index, yielded, sdkVars,
                   handlerVars, renderVars, turnVars, lockVars, overlapVars, contextVars, pinVars, diffVars>>

\* an except clause that resynchronises total_blocks_seen as a ResultMessage does
StreamRaiseResync ==
    /\ pc = "iter"
    /\ session_states' = [session_states EXCEPT ![session_id] =
                              MarkAllSeen(@, current_block_index)]
    /\ yielded' = Append(yielded, ErrorUpdate)
    /\ pc' = "done"
    /\ left' = "raise"
    /\ UNCHANGED <<session_id, restart, current_block_index, sdkVars, handlerVars, renderVars, turnVars, lockVars, overlapVars, contextVars, pinVars, diffVars>>

\* lines 93, 172-178: receive_messages() raises while it is iterated
StreamRaise ==
    /\ pc = "iter"
    /\ yielded' = Append(yielded, ErrorUpdate)
    /\ pc' = "done"
    /\ left' = "raise"
    /\ UNCHANGED <<session_states, session_id, restart, current_block_index, sdkVars, handlerVars, renderVars, turnVars, lockVars, overlapVars, contextVars, pinVars, diffVars>>

\* line 72: the client context exits normally after the loop
CloseOk ==
    /\ pc = "closing"
    /\ pc' = "done"
    /\ UNCHANGED <<session_states, session_id, restart, current_block_index, yielded, left, sdkVars,
                   handlerVars, renderVars, turnVars, lockVars, overlapVars, contextVars, pinVars, diffVars>>

\* lines 72, 172-178: disconnecting the client raises after the loop
CloseRaise ==
    /\ pc = "closing"
    /\ yielded' = Append(yielded, ErrorUpdate)
    /\ pc' = "done"
    /\ UNCHANGED <<session_states, session_id, restart, current_block_index, left, sdkVars,
                   handlerVars, renderVars, turnVars, lockVars, overlapVars, contextVars, pinVars, diffVars>>

Next ==
    \/ \E s \in Sessions, m \in {"replay", "fresh"} : StartTurn(s, m)
    \/ \E s \in Sessions : StartRaise(s)
    \/ ReplayBlock
    \/ \E b \in Blocks : NewBlock(b)
    \/ UserMessage
    \/ \E e \in BOOLEAN : ResultMessage(e)
    \/ StreamEnd
    \/ StreamRaise
    \/ CloseOk
    \/ CloseRaise

Spec == Init /\ [][Next]_vars

\* the runs of Spec and those that are started with restart=True
RestartNext ==
    \/ Next
    \/ \E s \in Sessions, m \in {"replay", "fresh"} : StartTurnWith(s, m, TRUE)

RestartSpec == Init /\ [][RestartNext]_vars

-----------------------------------------------------------------------------
(* handle_text_message.stream_handler: the Event Log of a turn.             *)
(* _update_stream_message, which stream_handler calls after it has changed  *)
(* the log, reads events and writes only messages and message_contents.     *)

ToolEvent(call) ==
    [type |-> "tool", name |-> call.name, id |-> call.id, status |-> "running"]
TextEvent(content) == [type |-> "text", content |-> content]

\* a tool start that sets the entries of the same id back to running
RECURSIVE AppendToolCallsRestart(_, _)
AppendToolCallsRestart(evts, calls) ==
    IF calls = <<>> THEN evts
    ELSE AppendToolCallsRestart(
             Append([i \in DOMAIN evts |->
                        IF evts[i].type = "tool" /\ evts[i].id = Head(calls).id
                        THEN [evts[i] EXCEPT !.status = "running"]
                        ELSE evts[i]],
                    ToolEvent(Head(calls))),
             Tail(calls))

\* lines 206-214: one running tool entry per tool call, in order
RECURSIVE AppendToolCalls(_, _)
AppendToolCalls(evts, calls) ==
    IF calls = <<>> THEN evts
    ELSE AppendToolCalls(Append(evts, ToolEvent(Head(calls))), Tail(calls))

\* a lookup that falls back to the first tool entry when no id matches
MatchingEntryOrFirstTool(evts, tool_id) ==
    LET hits == {i \in DOMAIN evts : evts[i].type = "tool" /\ evts[i].id = tool_id}
        tools == {i \in DOMAIN evts : evts[i].type = "tool"}
    IN  IF hits # {} THEN CHOOSE i \in hits : \A j \in hits : i <= j
        ELSE IF tools # {} THEN CHOOSE i \in tools : \A j \in tools : i <= j
        ELSE 0

\* the entry that "for event in stream_state['events']: if ...: break" stops at
\* (0 when the loop runs to its end)
MatchingEntry(evts, tool_id) ==
    LET hits == {i \in DOMAIN evts : evts[i].type = "tool" /\ evts[i].id = tool_id}
    IN  IF hits = {} THEN 0 ELSE CHOOSE i \in hits : \A j \in hits : i <= j

\* a finish that moves the finished entry to the end of the log
MarkDoneMoveLast(evts, tool_id) ==
    LET i == MatchingEntry(evts, tool_id)
    IN  IF i = 0 THEN evts
        ELSE SubSeq(evts, 1, i - 1) \o SubSeq(evts, i + 1, Len(evts))
                 \o <<[evts[i] EXCEPT !.status = "done"]>>

\* lines 221-225
MarkDone(evts, tool_id) ==
    LET i == MatchingEntry(evts, tool_id)
    IN  IF i = 0 THEN evts ELSE [evts EXCEPT ![i].status = "done"]

\* lines 220-225
RECURSIVE ApplyToolResults(_, _)
ApplyToolResults(evts, results) ==
    IF results = <<>> THEN evts
    ELSE ApplyToolResults(MarkDone(evts, Head(results).tool_use_id), Tail(results))

\* a fallback that stops at the first running tool
FinishFirstRunning(evts) ==
    LET running == {i \in DOMAIN evts : evts[i].type = "tool" /\ evts[i].status = "running"}
    IN  IF running = {} THEN evts
        ELSE [evts EXCEPT ![CHOOSE i \in running : \A j \in running : i <= j].status = "done"]

\* lines 232-234
FinishRunning(evts) ==
    [i \in DOMAIN evts |->
        IF evts[i].type = "tool" /\ evts[i].status = "running"
        THEN [evts[i] EXCEPT !.status = "done"]
        ELSE evts[i]]

\* a text event that always starts a new entry
AppendTextNoMerge(evts, content) == Append(evts, TextEvent(content))

\* lines 243-249
AppendText(evts, content) ==
    IF evts # <<>> /\ evts[Len(evts)].type = "text"
    THEN [evts EXCEPT ![Len(evts)].content = @ \o content]
    ELSE Append(evts, TextEvent(content))

\* lines 204-249: the Event Log after stream_handler(update_obj)
ApplyUpdate(evts, u) ==
    IF u.type = "assistant" /\ u.tool_calls # <<>> THEN AppendToolCalls(evts, u.tool_calls)
    ELSE IF u.type = "tool_result" /\ u.tool_calls # <<>>
    THEN ApplyToolResults(evts, u.tool_calls)
    ELSE IF u.type = "result" THEN FinishRunning(evts)
    ELSE IF u.type = "assistant" /\ u.content # <<>> THEN AppendText(evts, u.content)
    ELSE evts

\* text deltas and tool calls the handler is given
Deltas == {<<"H", "e", "l">>, <<"l", "o">>}
Calls == {[name |-> n, id |-> i] : n \in ToolNames, i \in ToolIds}
Results == {[tool_use_id |-> i, is_error |-> FALSE] : i \in ToolIds}

Updates ==
    {TextUpdate(d) : d \in Deltas}
    \cup {StreamUpdate("assistant", <<>>, <<c>>) : c \in Calls}
    \cup {ToolResultUpdate(<<r>>) : r \in Results}
    \cup {ResultUpdate, ErrorUpdate, ProgressUpdate, StreamUpdate("assistant", <<>>, <<>>)}
    \cup {StreamUpdate("assistant", <<>>, <<[name |-> "X", id |-> "1"], [name |-> "X", id |-> "2"]>>),
          StreamUpdate("assistant", <<"l", "o">>, <<[name |-> "X", id |-> "2"]>>),
          ToolResultUpdate(<<[tool_use_id |-> "1", is_error |-> FALSE],
                             [tool_use_id |-> "2", is_error |-> FALSE]>>)}

\* lines 281-288: handle_text_message creates the stream state of a turn
NewStreamState ==
    /\ handled # <<>>
    /\ events' = <<>>
    /\ handled' = <<>>
    /\ before' = <<>>
    /\ UNCHANGED <<agentVars, sdkVars, turnVars, lockVars, overlapVars, contextVars, pinVars, diffVars, renderVars>>

\* lines 195-249
StreamHandler(update_obj) ==
    /\ Len(handled) < MaxEvents
    /\ before' = events
    /\ events' = ApplyUpdate(events, update_obj)
    /\ handled' = Append(handled, update_obj)
    /\ UNCHANGED <<agentVars, sdkVars, turnVars, lockVars, overlapVars, contextVars, pinVars, diffVars, renderVars>>

HandlerNext ==
    \/ NewStreamState
    \/ \E u \in Updates : StreamHandler(u)

HandlerSpec == Init /\ [][HandlerNext]_vars

-----------------------------------------------------------------------------
(* handle_text_message._update_stream_message: the transcript text, its      *)
(* chunks and the chunk messages.  A character that is not ASCII is written  *)
(* by its name; every element of a text is one code point.                   *)

CHUNK_SIZE == 4000          \* line 368
UPDATE_INTERVAL == 5        \* line 252: 0.5 s, in tenths of a second
LONG_DELTA == 50            \* line 252

Min(a, b) == IF a <= b THEN a ELSE b

\* Python's s[a:b]
Slice(s, a, b) == SubSeq(s, a + 1, Min(b, Len(s)))

Digits == <<"0", "1", "2", "3", "4", "5", "6", "7", "8", "9">>

\* Python's str(n) for n >= 0
RECURSIVE Str(_)
Str(n) == IF n < 10 THEN <<Digits[n + 1]>> ELSE Str(n \div 10) \o <<Digits[(n % 10) + 1]>>

\* Python's "\n".join(parts)
RECURSIVE Join(_)
Join(parts) ==
    IF parts = <<>> THEN <<>>
    ELSE IF Len(parts) = 1 THEN parts[1]
    ELSE parts[1] \o <<"\n">> \o Join(Tail(parts))

Whitespace == {" ", "\n", "\t"}

\* not s.strip()
IsBlank(s) == \A i \in DOMAIN s : s[i] \in Whitespace

\* line 321
StatusIcon(status) == IF status = "running" THEN "HOURGLASS" ELSE "CHECK"

\* line 326: the tool names of the model are no keys of TOOL_ICONS
TypeIcon(tool_name) == "WRENCH"

\* lines 328-351: these tool names have no details; a name is one character
ToolLine(tool_counter, event) ==
    Str(tool_counter) \o <<".", " ", StatusIcon(event.status), " ", TypeIcon(event.name), " ">>
        \o <<"*", "*", event.name, "*", "*">>

Separator == <<"\n", "-", "-", "-", "\n">>

\* lines 314-361: message_parts, from the loop state tool_counter, has_separator
RECURSIVE MessageParts(_, _, _)
MessageParts(evts, tool_counter, has_separator) ==
    IF evts = <<>> THEN <<>>
    ELSE LET event == Head(evts)
         IN  IF event.type = "tool"
             THEN <<ToolLine(tool_counter + 1, event)>>
                      \o MessageParts(Tail(evts), tool_counter + 1, FALSE)
             ELSE IF tool_counter > 0 /\ ~has_separator
             THEN <<Separator, event.content>> \o MessageParts(Tail(evts), tool_counter, TRUE)
             ELSE <<event.content>> \o MessageParts(Tail(evts), tool_counter, has_separator)

\* line 363
CombinedText(evts) == Join(MessageParts(evts, 0, FALSE))

\* chunks one character longer than CHUNK_SIZE
RECURSIVE ChunksFromLonger(_, _)
ChunksFromLonger(text, i) ==
    IF i >= Len(text) THEN <<>>
    ELSE <<Slice(text, i, i + CHUNK_SIZE + 1)>> \o ChunksFromLonger(text, i + CHUNK_SIZE + 1)

\* line 369: [combined_text[i:i+CHUNK_SIZE] for i in range(0, len(combined_text), CHUNK_SIZE)]
RECURSIVE ChunksFrom(_, _)
ChunksFrom(text, i) ==
    IF i >= Len(text) THEN <<>>
    ELSE <<Slice(text, i, i + CHUNK_SIZE)>> \o ChunksFrom(text, i + CHUNK_SIZE)

Chunks(text) == ChunksFrom(text, 0)

\* one reply_text or edit_text call: the chunk index (-1 outside the chunk
\* loop), the text passed and whether the call returned
Call(op, index, text, ok) == [op |-> op, index |-> index, text |-> text, ok |-> ok]

\* what a Telegram call does: "ok" returns, "parse" raises BadRequest "Can't
\* parse entities", "raise" raises any other exception
Outcomes == {"ok", "parse", "raise"}

\* the outcome of the call for chunk k (a call no outcome was chosen for returns)
OutcomeOf(outcomes, k) == IF k \in DOMAIN outcomes THEN outcomes[k] ELSE "ok"

\* a loop that takes no chunk to have a message yet
HasNoMessage(msgs, k) == FALSE

\* line 374: i < len(stream_state["messages"]), with k = i + 1
HasMessage(msgs, k) == k <= Len(msgs)

\* a loop that takes every chunk to have changed
ContentNeverUnchanged(contents, k, chunk) == FALSE

\* line 376
ContentUnchanged(contents, k, chunk) == k <= Len(contents) /\ contents[k] = chunk

\* a chunk loop that stores the chunk of an edit that has failed
RECURSIVE ChunkLoopStoreFailed(_, _, _, _)
ChunkLoopStoreFailed(st, chunks, k, outcomes) ==
    IF k > Len(chunks) THEN st
    ELSE LET chunk == chunks[k]
         IN  IF HasMessage(st.messages, k)
             THEN IF ContentUnchanged(st.message_contents, k, chunk)
                  THEN ChunkLoopStoreFailed(st, chunks, k + 1, outcomes)
                  ELSE ChunkLoopStoreFailed(
                           [st EXCEPT
                               !.message_contents =
                                   IF k <= Len(@) THEN [@ EXCEPT ![k] = chunk]
                                   ELSE Append(@, chunk),
                               !.chat = IF OutcomeOf(outcomes, k) = "ok"
                                        THEN [@ EXCEPT ![st.messages[k]] = chunk] ELSE @,
                               !.api_calls = Append(@, Call("edit", k - 1, chunk,
                                                            OutcomeOf(outcomes, k) = "ok"))],
                           chunks, k + 1, outcomes)
             ELSE IF OutcomeOf(outcomes, k) = "ok"
             THEN ChunkLoopStoreFailed(
                      [st EXCEPT
                          !.messages = Append(@, Len(st.chat) + 1),
                          !.message_contents = Append(@, chunk),
                          !.chat = Append(@, chunk),
                          !.api_calls = Append(@, Call("send", k - 1, chunk, TRUE))],
                      chunks, k + 1, outcomes)
             ELSE [st EXCEPT
                      !.api_calls = Append(@, Call("send", k - 1, chunk, FALSE)),
                      !.raised = OutcomeOf(outcomes, k)]

\* lines 372-398: the chunk loop from chunk k on (k = i + 1); st holds
\* messages, message_contents, the chat, the calls made and the exception
\* that has left the loop
RECURSIVE ChunkLoop(_, _, _, _)
ChunkLoop(st, chunks, k, outcomes) ==
    IF k > Len(chunks) THEN st
    ELSE LET chunk == chunks[k]
         IN  IF HasMessage(st.messages, k)
             THEN IF ContentUnchanged(st.message_contents, k, chunk)
                  THEN ChunkLoop(st, chunks, k + 1, outcomes)
                  ELSE IF OutcomeOf(outcomes, k) = "ok"
                  THEN ChunkLoop(
                           [st EXCEPT
                               !.message_contents =
                                   IF k <= Len(@) THEN [@ EXCEPT ![k] = chunk]
                                   ELSE Append(@, chunk),
                               !.chat = [@ EXCEPT ![st.messages[k]] = chunk],
                               !.api_calls = Append(@, Call("edit", k - 1, chunk, TRUE))],
                           chunks, k + 1, outcomes)
                  ELSE ChunkLoop(
                           [st EXCEPT
                               !.api_calls = Append(@, Call("edit", k - 1, chunk, FALSE))],
                           chunks, k + 1, outcomes)
             ELSE IF OutcomeOf(outcomes, k) = "ok"
             THEN ChunkLoop(
                      [st EXCEPT
                          !.messages = Append(@, Len(st.chat) + 1),
                          !.message_contents = Append(@, chunk),
                          !.chat = Append(@, chunk),
                          !.api_calls = Append(@, Call("send", k - 1, chunk, TRUE))],
                      chunks, k + 1, outcomes)
             ELSE [st EXCEPT
                      !.api_calls = Append(@, Call("send", k - 1, chunk, FALSE)),
                      !.raised = OutcomeOf(outcomes, k)]

\* lines 310-311, 363-366: the chunks a render works on (none when it returns early)
RenderChunks(evts) ==
    IF evts = <<>> THEN <<>>
    ELSE LET combined_text == CombinedText(evts)
         IN  IF IsBlank(combined_text) THEN <<>> ELSE Chunks(combined_text)

\* lines 304-398
UpdateStreamMessage(evts, st, outcomes) == ChunkLoop(st, RenderChunks(evts), 1, outcomes)

\* line 282: nothing assigns stream_state["accumulated_text"] after its creation
accumulated_text == <<>>

\* lines 258-278: the retry after "Can't parse entities"
RetryPlain(st, cur, retry_ok) ==
    IF cur = 0
    THEN IF retry_ok
         THEN [st EXCEPT !.chat = Append(@, accumulated_text),
                         !.current_message = Len(st.chat) + 1,
                         !.api_calls = Append(@, Call("send", -1, accumulated_text, TRUE))]
         ELSE [st EXCEPT !.api_calls = Append(@, Call("send", -1, accumulated_text, FALSE))]
    ELSE IF retry_ok
         THEN [st EXCEPT !.chat = [@ EXCEPT ![cur] = accumulated_text],
                         !.api_calls = Append(@, Call("edit", -1, accumulated_text, TRUE))]
         ELSE [st EXCEPT !.api_calls = Append(@, Call("edit", -1, accumulated_text, FALSE))]

\* an except clause that handles the parse rejection only
ExceptParseOnly(st) == IF st.raised = "parse" THEN [st EXCEPT !.raised = ""] ELSE st

\* line 256: "except Exception" ends whatever the body of stream_handler raised
ExceptException(st) == [st EXCEPT !.raised = ""]

\* lines 204, 218, 229, 238: the branch of stream_handler an update takes
Branch(u) ==
    IF u.type = "assistant" /\ u.tool_calls # <<>> THEN "tool_start"
    ELSE IF u.type = "tool_result" /\ u.tool_calls # <<>> THEN "tool_finish"
    ELSE IF u.type = "result" THEN "result"
    ELSE IF u.type = "assistant" /\ u.content # <<>> THEN "text"
    ELSE "none"

\* line 252: stream_state["last_update_time"] raises KeyError while the key is absent
ThrottleRaises(u) == Branch(u) = "text" /\ last_update_time = <<>>

\* line 252
ThrottlePasses(u, now) ==
    (now - last_update_time[1] >= UPDATE_INTERVAL) \/ Len(u.content) > LONG_DELTA

\* a handler that throttles every branch
CallsRenderThrottled(u, now) ==
    /\ Branch(u) # "none"
    /\ last_update_time # <<>>
    /\ ThrottlePasses(u, now)

\* lines 216, 227, 236, 252-253: does stream_handler call _update_stream_message
CallsRender(u, now) ==
    \/ Branch(u) \in {"tool_start", "tool_finish", "result"}
    \/ Branch(u) = "text" /\ ~ThrottleRaises(u) /\ ThrottlePasses(u, now)

\* Python's "x" * n
Filler(n) == [i \in 1..n |-> "x"]

\* the updates of a turn: a short delta, a delta longer than LONG_DELTA, a
\* delta that fills a chunk up to its last character together with one tool
\* line, a tool call, its result, an unknown result and the turn's result
RenderUpdates ==
    {TextUpdate(<<"H", "i">>), TextUpdate(Filler(LONG_DELTA + 1)),
     TextUpdate(Filler(CHUNK_SIZE - 13)),
     StreamUpdate("assistant", <<>>, <<[name |-> "X", id |-> "1"]>>),
     ToolResultUpdate(<<[tool_use_id |-> "1", is_error |-> FALSE]>>),
     ResultUpdate}

\* seconds between two stream_handler calls, in tenths
Gaps == {1, UPDATE_INTERVAL}

\* the chunks of a render for which a Telegram call is made if the loop gets there
CallIndices(chunks) ==
    {k \in DOMAIN chunks :
        k > Len(messages) \/ k > Len(message_contents) \/ message_contents[k] # chunks[k]}

\* every exception of edit_text is handled alike (line 389), so one stands for all
OutcomeChoices(chunks) ==
    {f \in [CallIndices(chunks) -> Outcomes] :
        \A k \in DOMAIN f : k <= Len(messages) => f[k] # "parse"}

FailedEdits(cs) == {cs[j].index : j \in {j \in DOMAIN cs : cs[j].op = "edit" /\ ~cs[j].ok}}

\* lines 195-278: one stream_handler call, with the render it awaits
HandleUpdate(update_obj, gap) ==
    /\ phase = "streaming"
    /\ Len(handled) < MaxUpdates
    /\ LET now == current_time + gap
           evts == ApplyUpdate(events, update_obj)
           render == CallsRender(update_obj, now)
           st0 == [messages |-> messages, message_contents |-> message_contents,
                   chat |-> chat, current_message |-> current_message,
                   api_calls |-> <<>>,
                   raised |-> IF ThrottleRaises(update_obj) THEN "KeyError" ELSE ""]
       IN  \E outcomes \in IF render THEN OutcomeChoices(RenderChunks(evts)) ELSE {<<>>} :
             LET st1 == IF render THEN UpdateStreamMessage(evts, st0, outcomes) ELSE st0
             IN  \E retry_ok \in IF st1.raised = "parse" THEN BOOLEAN ELSE {FALSE} :
                   LET st2 == ExceptException(IF st1.raised = "parse"
                                              THEN RetryPlain(st1, current_message, retry_ok)
                                              ELSE st1)
                   IN  /\ before' = events
                       /\ phase' = IF st2.raised = "" THEN phase ELSE "raising"
                       /\ events' = evts
                       /\ handled' = Append(handled, update_obj)
                       /\ current_time' = now
                       /\ messages' = st2.messages
                       /\ message_contents' = st2.message_contents
                       /\ chat' = st2.chat
                       /\ current_message' = st2.current_message
                       /\ api_calls' = st2.api_calls
                       /\ renders' = IF render THEN 1 ELSE 0
                       /\ last_update_time' =
                              IF Branch(update_obj) = "text" /\ render /\ st1.raised = ""
                              THEN <<now>>
                              ELSE last_update_time
                       /\ edit_failed' = edit_failed \cup FailedEdits(api_calls)
    /\ UNCHANGED <<agentVars, sdkVars, turnVars, lockVars, overlapVars, contextVars, pinVars, diffVars>>

FinalText == <<"O", "K">>
ErrorText == <<"CROSS_MARK", " ", "*", "*", "E", "r", "r", "o", "r", "*", "*">>

\* lines 416-425, 477-523: run_command returns; the formatted response is
\* sent when no chunk message was streamed
RunCommandReturns(ok) ==
    /\ phase = "streaming"
    /\ phase' = "done"
    /\ IF messages = <<>>
       THEN /\ api_calls' = <<Call("send", -1, FinalText, ok)>>
            /\ chat' = IF ok THEN Append(chat, FinalText) ELSE chat
       ELSE /\ api_calls' = <<>>
            /\ chat' = chat
    /\ renders' = 0
    /\ UNCHANGED <<agentVars, sdkVars, turnVars, lockVars, overlapVars, contextVars, pinVars, diffVars, handlerVars, messages, message_contents,
                   current_message, last_update_time, current_time, edit_failed>>

\* a failure path that removes the chunk messages of the turn
RunCommandRaisesCleanup(ok) ==
    /\ phase = "streaming"
    /\ phase' = "failed"
    /\ api_calls' = <<Call("send", -1, ErrorText, ok)>>
    /\ chat' = IF ok THEN <<ErrorText>> ELSE <<>>
    /\ messages' = <<>>
    /\ message_contents' = <<>>
    /\ renders' = 0
    /\ UNCHANGED <<agentVars, sdkVars, turnVars, lockVars, overlapVars, contextVars, pinVars, diffVars, handlerVars,
                   current_message, last_update_time, current_time, edit_failed>>

\* lines 457-467, 497-523, 605-613: run_command raises; an error message is
\* sent (progress_msg is no name of handle_text_message, so line 608 raises
\* NameError, which line 609 swallows)
RunCommandRaises(ok) ==
    /\ phase = "streaming"
    /\ phase' = "failed"
    /\ api_calls' = <<Call("send", -1, ErrorText, ok)>>
    /\ chat' = IF ok THEN Append(chat, ErrorText) ELSE chat
    /\ renders' = 0
    /\ UNCHANGED <<agentVars, sdkVars, turnVars, lockVars, overlapVars, contextVars, pinVars, diffVars, handlerVars, messages, message_contents,
                   current_message, last_update_time, current_time, edit_failed>>

\* lines 281-288: the next handle_text_message call starts with a new stream_state
NewTurn ==
    /\ phase # "streaming"
    /\ events' = <<>>
    /\ handled' = <<>>
    /\ before' = <<>>
    /\ messages' = <<>>
    /\ message_contents' = <<>>
    /\ current_message' = 0
    /\ last_update_time' = <<>>
    /\ current_time' = 0
    /\ chat' = <<>>
    /\ api_calls' = <<>>
    /\ renders' = 0
    /\ edit_failed' = {}
    /\ phase' = "streaming"
    /\ UNCHANGED <<agentVars, sdkVars, turnVars, lockVars, overlapVars, contextVars, pinVars, diffVars>>

RenderNext ==
    \/ \E u \in RenderUpdates, gap \in Gaps : HandleUpdate(u, gap)
    \/ \E ok \in BOOLEAN : RunCommandReturns(ok)
    \/ \E ok \in BOOLEAN : RunCommandRaises(ok)
    \/ NewTurn

RenderSpec == Init /\ [][RenderNext]_vars

-----------------------------------------------------------------------------
(* handle_text_message: one turn, from the typing task to the last message  *)
(* it sends, with keep_typing running beside it.                            *)

\* lines 181, 412: the turn reads the stored session id and starts keep_typing
CreateTypingTask(configured) ==
    /\ step = "start"
    /\ text_messages < MaxMessages
    /\ text_messages' = text_messages + 1
    /\ step' = "run_command"
    /\ typing_task' = "running"
    /\ typing_actions' = 0
    /\ features' = configured
    /\ claude_response' = FALSE
    /\ streamed' = FALSE
    /\ error_icon' = FALSE
    /\ error_messages' = 0
    /\ responses' = 0
    /\ \E sid \in AgentSessions : agent_session' = sid
    /\ UNCHANGED <<agentVars, sdkVars, handlerVars, renderVars, lockVars, overlapVars, contextVars, pinVars, diffVars, claude_session_id>>

\* lines 404-406: keep_typing sends a typing action and sleeps
KeepTyping ==
    /\ typing_task = "running"
    /\ typing_actions < MaxTyping
    /\ typing_actions' = typing_actions + 1
    /\ UNCHANGED <<agentVars, sdkVars, handlerVars, renderVars, lockVars, overlapVars, contextVars, pinVars, diffVars, error_icon, step, text_messages,
                   typing_task, claude_session_id, agent_session, claude_response,
                   features, streamed, error_messages, responses>>

\* lines 409-410: send_action raises and keep_typing ends
TypingFails ==
    /\ typing_task = "running"
    /\ typing_task' = "done"
    /\ UNCHANGED <<agentVars, sdkVars, handlerVars, renderVars, lockVars, overlapVars, contextVars, pinVars, diffVars, error_icon, step, text_messages,
                   typing_actions, claude_session_id, agent_session, claude_response,
                   features, streamed, error_messages, responses>>

\* lines 416-425, 477-485: run_command returns, the session id is stored and
\* the response is formatted; has_icon: its text holds an icon of line 500
RunCommandOk(has_streamed, has_icon) ==
    /\ step = "run_command"
    /\ claude_response' = TRUE
    /\ claude_session_id' = agent_session
    /\ streamed' = has_streamed
    /\ error_icon' = has_icon
    /\ step' = "finally"
    /\ UNCHANGED <<agentVars, sdkVars, handlerVars, renderVars, lockVars, overlapVars, contextVars, pinVars, diffVars, text_messages, typing_task,
                   typing_actions, agent_session, features, error_messages, responses>>

\* lines 445-467: run_command raises; an error message is formatted
RunCommandFails(has_streamed) ==
    /\ step = "run_command"
    /\ streamed' = has_streamed
    /\ error_icon' = TRUE
    /\ step' = "finally"
    /\ UNCHANGED <<agentVars, sdkVars, handlerVars, renderVars, lockVars, overlapVars, contextVars, pinVars, diffVars, text_messages, typing_task,
                   typing_actions, claude_session_id, agent_session, claude_response,
                   features, error_messages, responses>>

\* line 471: typing_task.cancel()
CancelTypingTask ==
    /\ step = "finally"
    /\ typing_task' = IF typing_task = "running" THEN "cancelling" ELSE typing_task
    /\ step' = "await_typing"
    /\ UNCHANGED <<agentVars, sdkVars, handlerVars, renderVars, lockVars, overlapVars, contextVars, pinVars, diffVars, error_icon, text_messages,
                   typing_actions, claude_session_id, agent_session, claude_response,
                   features, streamed, error_messages, responses>>

\* lines 407-408: keep_typing gets CancelledError at its await and returns
TypingCancelled ==
    /\ typing_task = "cancelling"
    /\ typing_task' = "done"
    /\ UNCHANGED <<agentVars, sdkVars, handlerVars, renderVars, lockVars, overlapVars, contextVars, pinVars, diffVars, error_icon, step, text_messages,
                   typing_actions, claude_session_id, agent_session, claude_response,
                   features, streamed, error_messages, responses>>

\* a finally clause that goes on without awaiting the task
AwaitTypingTaskNoWait ==
    /\ step = "await_typing"
    /\ step' = "respond"
    /\ UNCHANGED <<agentVars, sdkVars, handlerVars, renderVars, lockVars, overlapVars, contextVars, pinVars, diffVars, error_icon, text_messages, typing_task,
                   typing_actions, claude_session_id, agent_session, claude_response,
                   features, streamed, error_messages, responses>>

\* lines 472-475: await typing_task
AwaitTypingTask ==
    /\ step = "await_typing"
    /\ typing_task = "done"
    /\ step' = "respond"
    /\ UNCHANGED <<agentVars, sdkVars, handlerVars, renderVars, lockVars, overlapVars, contextVars, pinVars, diffVars, error_icon, text_messages, typing_task,
                   typing_actions, claude_session_id, agent_session, claude_response,
                   features, streamed, error_messages, responses>>

\* lines 497-504: an icon in a formatted message, or no streamed message
should_send == error_icon \/ ~streamed

\* lines 495-545: the formatted messages are sent when they are an error
\* message or when nothing was streamed; ok: one of the reply_text attempts
\* returns, otherwise the last one raises
SendFormatted(ok) ==
    /\ step = "respond"
    /\ IF ~should_send
       THEN /\ UNCHANGED <<responses, error_messages>>
            /\ step' = "enhance"
       ELSE IF ~claude_response
       THEN /\ error_messages' = IF ok THEN error_messages + 1 ELSE error_messages
            /\ responses' = responses
            /\ step' = IF ok THEN "enhance" ELSE "outer_except"
       ELSE /\ responses' = IF ok THEN responses + 1 ELSE responses
            /\ error_messages' = error_messages
            /\ step' = IF ok THEN "enhance" ELSE "outer_except"
    /\ UNCHANGED <<agentVars, sdkVars, handlerVars, renderVars, lockVars, overlapVars, contextVars, pinVars, diffVars, error_icon, text_messages, typing_task,
                   typing_actions, claude_session_id, agent_session, claude_response,
                   features, streamed>>

\* lines 551-592: "if conversation_enhancer and claude_response" reads the
\* local claude_response, which is unbound when run_command raised
ConversationEnhancement ==
    /\ step = "enhance"
    /\ step' = IF features /\ ~claude_response THEN "outer_except" ELSE "end"
    /\ UNCHANGED <<agentVars, sdkVars, handlerVars, renderVars, lockVars, overlapVars, contextVars, pinVars, diffVars, error_icon, text_messages, typing_task,
                   typing_actions, claude_session_id, agent_session, claude_response,
                   features, streamed, error_messages, responses>>

\* lines 605-613: the outer handler sends "Error processing message"
OuterExcept(ok) ==
    /\ step = "outer_except"
    /\ error_messages' = IF ok THEN error_messages + 1 ELSE error_messages
    /\ step' = "end"
    /\ UNCHANGED <<agentVars, sdkVars, handlerVars, renderVars, lockVars, overlapVars, contextVars, pinVars, diffVars, error_icon, text_messages, typing_task,
                   typing_actions, claude_session_id, agent_session, claude_response,
                   features, streamed, responses>>

\* the next text message of the topic
NextTextMessage ==
    /\ step = "end"
    /\ text_messages < MaxMessages
    /\ step' = "start"
    /\ typing_task' = "none"
    /\ UNCHANGED <<agentVars, sdkVars, handlerVars, renderVars, lockVars, overlapVars, contextVars, pinVars, diffVars, error_icon, text_messages,
                   typing_actions, claude_session_id, agent_session, claude_response,
                   features, streamed, error_messages, responses>>

TurnNext ==
    \/ \E configured \in BOOLEAN : CreateTypingTask(configured)
    \/ KeepTyping
    \/ TypingFails
    \/ \E has_streamed \in BOOLEAN, has_icon \in BOOLEAN : RunCommandOk(has_streamed, has_icon)
    \/ \E has_streamed \in BOOLEAN : RunCommandFails(has_streamed)
    \/ CancelTypingTask
    \/ TypingCancelled
    \/ AwaitTypingTask
    \/ \E ok \in BOOLEAN : SendFormatted(ok)
    \/ ConversationEnhancement
    \/ \E ok \in BOOLEAN : OuterExcept(ok)
    \/ NextTextMessage

TurnSpec == Init /\ [][TurnNext]_vars

-----------------------------------------------------------------------------
(* Overlapping calls of _update_stream_message: message.py lines 304-398.
   Each task is a caller of _update_stream_message; a step of the model is
   what runs between two awaits. *)

OtherVars == <<agentVars, sdkVars, handlerVars, renderVars, turnVars>>

InFlight == Cardinality({t \in Tasks : task_pc[t] # "idle"})

\* line 216, 227, 236, 253: a trigger calls _update_stream_message
CallRender(t) ==
    /\ task_pc[t] = "idle"
    /\ render_calls + InFlight < MaxRenders
    /\ task_pc' = [task_pc EXCEPT ![t] = "waiting"]
    /\ UNCHANGED <<OtherVars, overlapVars, contextVars, pinVars, diffVars, update_lock, pending, render_of, render_calls, writes>>

\* an acquire that does not look at the lock
LockIgnored == TRUE

\* line 309: asyncio.Lock.acquire goes on only while the lock is not held
LockFree == ~update_lock

\* lines 309-369: the lock is taken, the log is read and n chunks are built
\* (none: the early returns at 310-311 and 365-366)
AcquireLock(t, n) ==
    /\ task_pc[t] = "waiting"
    /\ LockFree
    /\ update_lock' = TRUE
    /\ task_pc' = [task_pc EXCEPT ![t] = "region"]
    /\ pending' = [pending EXCEPT ![t] = n]
    /\ render_calls' = render_calls + 1
    /\ render_of' = [render_of EXCEPT ![t] = render_calls + 1]
    /\ UNCHANGED <<OtherVars, overlapVars, contextVars, pinVars, diffVars, writes>>

\* lines 372-398: one edit_text or reply_text; a failed edit is swallowed
\* (389-390), a failed reply_text leaves the function and the async with
TransportCall(t, outcome) ==
    /\ task_pc[t] = "region"
    /\ pending[t] > 0
    /\ CASE outcome = "ok" ->
              /\ writes' = Append(writes, render_of[t])
              /\ pending' = [pending EXCEPT ![t] = @ - 1]
              /\ UNCHANGED <<update_lock, task_pc, render_of>>
         [] outcome = "edit_raises" ->
              /\ pending' = [pending EXCEPT ![t] = @ - 1]
              /\ UNCHANGED <<update_lock, task_pc, render_of, writes>>
         [] outcome = "send_raises" ->
              /\ update_lock' = FALSE
              /\ task_pc' = [task_pc EXCEPT ![t] = "idle"]
              /\ pending' = [pending EXCEPT ![t] = 0]
              /\ render_of' = [render_of EXCEPT ![t] = 0]
              /\ UNCHANGED writes
    /\ UNCHANGED <<OtherVars, overlapVars, contextVars, pinVars, diffVars, render_calls>>

\* lines 311, 366 and the end of the loop: the function returns and the
\* async with releases the lock
ReturnFromRender(t) ==
    /\ task_pc[t] = "region"
    /\ pending[t] = 0
    /\ update_lock' = FALSE
    /\ task_pc' = [task_pc EXCEPT ![t] = "idle"]
    /\ render_of' = [render_of EXCEPT ![t] = 0]
    /\ UNCHANGED <<OtherVars, overlapVars, contextVars, pinVars, diffVars, pending, render_calls, writes>>

LockNext ==
    \/ \E t \in Tasks : CallRender(t)
    \/ \E t \in Tasks, n \in 0..MaxChunks : AcquireLock(t, n)
    \/ \E t \in Tasks, outcome \in {"ok", "edit_raises", "send_raises"} : TransportCall(t, outcome)
    \/ \E t \in Tasks : ReturnFromRender(t)

LockSpec == Init /\ [][LockNext]_vars

-----------------------------------------------------------------------------
(* Turns submitted for sessions: the state of a session in stream_message,
   agent.py lines 83-136, under the caller's admission of turns. *)

\* message.py lines 412-422: a handler calls run_command for session s
SubmitTurn(c, s) ==
    /\ runs[c].pc = "idle"
    /\ runs' = [runs EXCEPT ![c] = [pc |-> "queued", session |-> s, index |-> 0]]
    /\ UNCHANGED <<OtherVars, lockVars, contextVars, pinVars, diffVars, stream_totals>>

\* an admission that does not look at the other runs
SessionAlwaysFree(c) == TRUE

\* the caller's rule: a turn for a session waits while another run of that
\* session is in progress
SessionFree(c) ==
    \A d \in Callers \ {c} : ~(runs[d].pc = "running" /\ runs[d].session = runs[c].session)

\* agent.py lines 84-96: the run takes the session's state and skips the
\* blocks already seen
AdmitTurn(c) ==
    /\ runs[c].pc = "queued"
    /\ SessionFree(c)
    /\ runs' = [runs EXCEPT ![c].pc = "running", ![c].index = stream_totals[runs[c].session]]
    /\ UNCHANGED <<OtherVars, lockVars, contextVars, pinVars, diffVars, stream_totals>>

\* agent.py lines 120-136: a tool block is yielded and total_blocks_seen
\* is set to the run's own block index
ProcessToolBlock(c) ==
    /\ runs[c].pc = "running"
    /\ runs[c].index < MaxSeen
    /\ runs' = [runs EXCEPT ![c].index = @ + 1]
    /\ stream_totals' = [stream_totals EXCEPT ![runs[c].session] = runs[c].index + 1]
    /\ UNCHANGED <<OtherVars, lockVars, contextVars, pinVars, diffVars>>

\* agent.py lines 151-178: the run ends
CompleteTurn(c) ==
    /\ runs[c].pc = "running"
    /\ runs' = [runs EXCEPT ![c] = IdleRun]
    /\ UNCHANGED <<OtherVars, lockVars, contextVars, pinVars, diffVars, stream_totals>>

OverlapNext ==
    \/ \E c \in Callers, s \in AgentSessions : SubmitTurn(c, s)
    \/ \E c \in Callers : AdmitTurn(c)
    \/ \E c \in Callers : ProcessToolBlock(c)
    \/ \E c \in Callers : CompleteTurn(c)

OverlapSpec == Init /\ [][OverlapNext]_vars

-----------------------------------------------------------------------------
(* ContextManager: context_manager.py. context.chat_data is the dict the
   framework keeps for the chat of the update. *)

NonContextVars == <<OtherVars, lockVars, overlapVars, pinVars, diffVars>>

\* values the setters are called with
FieldValues(field) ==
    CASE field = "claude_session_id" -> {"s1"}
      [] field = "current_directory" -> {"/a"}
      [] field = "current_status" -> {"processing"}
      [] field = "session_started" -> {TRUE, FALSE}
      [] field = "pinned_message_id" -> {7}

\* a key that leaves the thread out
get_context_key_chat_only(chat_id, thread_id) == Str(chat_id)

\* lines 19-27: f"{chat_id}:{thread_id}" if thread_id else str(chat_id)
get_context_key(chat_id, thread_id) ==
    IF thread_id # 0 THEN Str(chat_id) \o <<":">> \o Str(thread_id) ELSE Str(chat_id)

\* lines 29-38: get_state creates the missing dicts; the chat_data it leaves
get_state(data, key) ==
    LET d1 == IF "topic_states" \in DOMAIN data THEN data ELSE ("topic_states" :> <<>>)
    IN  IF key \in DOMAIN d1.topic_states
        THEN d1
        ELSE [d1 EXCEPT !.topic_states = @ @@ (key :> <<>>)]

\* state.get(field, default)
StateGet(state, field) == IF field \in DOMAIN state THEN state[field] ELSE Default(field)

\* state[field] = value
StateSet(state, field, value) == (field :> value) @@ state

\* the getters: lines 40-47, 58-65, 76-83, 94-101, 112-123
Get(chat_id, thread_id, field) ==
    /\ ctx_ops < MaxCtxOps
    /\ ctx_ops' = ctx_ops + 1
    /\ LET key == get_context_key(chat_id, thread_id)
           data == get_state(chat_data[chat_id], key)
       IN  /\ chat_data' = [chat_data EXCEPT ![chat_id] = data]
           /\ returned' = <<[chat_id |-> chat_id, thread_id |-> thread_id, field |-> field,
                             value |-> StateGet(data.topic_states[key], field)]>>
    /\ UNCHANGED <<NonContextVars, written>>

\* the setters: lines 49-56, 67-74, 85-92, 103-110, 125-136
Set(chat_id, thread_id, field, value) ==
    /\ ctx_ops < MaxCtxOps
    /\ ctx_ops' = ctx_ops + 1
    /\ LET key == get_context_key(chat_id, thread_id)
           data == get_state(chat_data[chat_id], key)
       IN  chat_data' = [chat_data EXCEPT ![chat_id] =
                            [data EXCEPT !.topic_states[key] = StateSet(@, field, value)]]
    /\ written' = [written EXCEPT ![<<chat_id, thread_id, field>>] = value]
    /\ returned' = <<>>
    /\ UNCHANGED NonContextVars

ContextNext ==
    \/ \E c \in ChatIds, t \in ThreadIds, f \in Fields : Get(c, t, f)
    \/ \E c \in ChatIds, t \in ThreadIds, f \in Fields : \E v \in FieldValues(f) : Set(c, t, f, v)

ContextSpec == Init /\ [][ContextNext]_vars

-----------------------------------------------------------------------------
(* PinnedMessageManager.update_status: status_pin.py lines 215-301. The tasks
   call update_status of one manager; a step of the model is what runs between
   two awaits. Calls of the Bot API raise TelegramError when they fail. *)

NonPinVars == <<OtherVars, lockVars, overlapVars, contextVars, diffVars>>

PinInFlight(k) == {p \in PinTasks : pin_pc[p] # "idle" /\ pin_key[p] = k}

\* a handler calls update_status for context key k
CallUpdateStatus(p, k) ==
    /\ pin_pc[p] = "idle"
    /\ pin_calls < MaxPinCalls
    /\ pin_calls' = pin_calls + 1
    /\ pin_pc' = [pin_pc EXCEPT ![p] = "waiting"]
    /\ pin_key' = [pin_key EXCEPT ![p] = k]
    /\ pin_raced' = [pin_raced EXCEPT ![k] = @ \/ (PinInFlight(k) # {} /\ pinned_ids[k] = 0)]
    /\ UNCHANGED <<NonPinVars, pin_lock, pin_msg, pinned_ids, status_sent, status_edits,
                   pin_edit_failures>>

\* an acquire that does not look at the lock
PinLockIgnored == TRUE

\* line 237: asyncio.Lock.acquire goes on only while the lock is not held
PinLockFree == ~pin_lock

\* lines 237-243: the lock is taken and _get_git_stats is awaited
AcquirePinLock(p) ==
    /\ pin_pc[p] = "waiting"
    /\ PinLockFree
    /\ pin_lock' = TRUE
    /\ pin_pc' = [pin_pc EXCEPT ![p] = "stats"]
    /\ UNCHANGED <<NonPinVars, pin_key, pin_msg, pinned_ids, status_sent, status_edits,
                   pin_edit_failures, pin_raced, pin_calls>>

\* lines 245-274, 285: the status text is formatted, the state is read and
\* edit_message_text or send_message is called
ReadPinnedId(p) ==
    /\ pin_pc[p] = "stats"
    /\ pin_pc' = [pin_pc EXCEPT ![p] = IF pinned_ids[pin_key[p]] # 0 THEN "editing" ELSE "sending"]
    /\ UNCHANGED <<NonPinVars, pin_lock, pin_key, pin_msg, pinned_ids, status_sent,
                   status_edits, pin_edit_failures, pin_raced, pin_calls>>

\* lines 269-282: the edit returns and the call returns None, or it raises
\* TelegramError and send_message is called
EditDone(p, ok) ==
    /\ pin_pc[p] = "editing"
    /\ IF ok
       THEN /\ status_edits' = Append(status_edits, pinned_ids[pin_key[p]])
            /\ pin_lock' = FALSE
            /\ pin_pc' = [pin_pc EXCEPT ![p] = "idle"]
            /\ UNCHANGED pin_edit_failures
       ELSE /\ pin_edit_failures' = [pin_edit_failures EXCEPT ![pin_key[p]] = @ + 1]
            /\ pin_pc' = [pin_pc EXCEPT ![p] = "sending"]
            /\ UNCHANGED <<status_edits, pin_lock>>
    /\ UNCHANGED <<NonPinVars, pin_key, pin_msg, pinned_ids, status_sent, pin_raced, pin_calls>>

\* lines 285-289, 299-301: send_message returns the new message and pin is
\* called, or it raises and the call returns None
SendDone(p, ok) ==
    /\ pin_pc[p] = "sending"
    /\ IF ok
       THEN /\ status_sent' = Append(status_sent, pin_key[p])
            /\ pin_msg' = [pin_msg EXCEPT ![p] = Len(status_sent) + 1]
            /\ pin_pc' = [pin_pc EXCEPT ![p] = "pinning"]
            /\ UNCHANGED pin_lock
       ELSE /\ pin_lock' = FALSE
            /\ pin_pc' = [pin_pc EXCEPT ![p] = "idle"]
            /\ UNCHANGED <<status_sent, pin_msg>>
    /\ UNCHANGED <<NonPinVars, pin_key, pinned_ids, status_edits, pin_edit_failures,
                   pin_raced, pin_calls>>

\* lines 288-297: pin returns or raises TelegramError; the message id is
\* stored in both cases and the call returns
PinDone(p, ok) ==
    /\ pin_pc[p] = "pinning"
    /\ pinned_ids' = [pinned_ids EXCEPT ![pin_key[p]] = pin_msg[p]]
    /\ pin_msg' = [pin_msg EXCEPT ![p] = 0]
    /\ pin_lock' = FALSE
    /\ pin_pc' = [pin_pc EXCEPT ![p] = "idle"]
    /\ UNCHANGED <<NonPinVars, pin_key, status_sent, status_edits, pin_edit_failures,
                   pin_raced, pin_calls>>

PinNext ==
    \/ \E p \in PinTasks, k \in ContextKeys : CallUpdateStatus(p, k)
    \/ \E p \in PinTasks : AcquirePinLock(p)
    \/ \E p \in PinTasks : ReadPinnedId(p)
    \/ \E p \in PinTasks, ok \in BOOLEAN : EditDone(p, ok)
    \/ \E p \in PinTasks, ok \in BOOLEAN : SendDone(p, ok)
    \/ \E p \in PinTasks, ok \in BOOLEAN : PinDone(p, ok)

PinSpec == Init /\ [][PinNext]_vars

-----------------------------------------------------------------------------
(* get_diff and verify_diff_token: diff_viewer.py lines 47-124. Paths are
   sequences of components under the root. *)

NonDiffVars == <<OtherVars, lockVars, overlapVars, contextVars, pinVars>>

approved_directory == <<"approved">>

RepoPaths == {<<"approved">>, <<"approved", "repo">>, <<"approved", "..", "etc">>,
              <<"approved", "repo", "..", "..", "etc">>, <<"etc">>, <<"approved2">>}

\* a token: is its signature made with the secret, is its exp in the past,
\* and the repo_path of its payload
Tokens == [signed : BOOLEAN, expired : BOOLEAN, repo_path : RepoPaths]

\* Path.resolve() of an absolute path without symlinks: ".." leaves the
\* last component out
RECURSIVE ResolveFrom(_, _)
ResolveFrom(done, rest) ==
    IF rest = <<>> THEN done
    ELSE IF Head(rest) = ".."
    THEN ResolveFrom(IF done = <<>> THEN <<>> ELSE SubSeq(done, 1, Len(done) - 1), Tail(rest))
    ELSE ResolveFrom(Append(done, Head(rest)), Tail(rest))

Resolve(path) == ResolveFrom(<<>>, path)

\* Path.is_relative_to: component by component
IsRelativeTo(path, other) == IsPrefix(other, path)

HTTPException(status_code, detail) ==
    [status_code |-> status_code, detail |-> detail, diff |-> "", git |-> <<>>]

\* lines 47-67: jwt.decode checks the signature, then exp; "" when the token
\* is accepted
VerifyRaises(token) ==
    IF ~token.signed THEN "InvalidTokenError"
    ELSE IF token.expired THEN "ExpiredSignatureError"
    ELSE ""

\* lines 96-100: what the body of the try raises ("" when nothing);
\* resolve_ok: resolve() returns
ValidationRaises(repo_path, resolve_ok) ==
    IF ~resolve_ok THEN "OSError"
    ELSE IF ~IsRelativeTo(Resolve(repo_path), approved_directory) THEN "HTTPException 403 Access denied"
    ELSE ""

\* lines 104-124: the git commands run and the answer; git: which of them fails
GitDiff(repo_path, git) ==
    CASE git = "status_fails" ->
            [status_code |-> 500, detail |-> "Git error", diff |-> "", git |-> <<"status">>]
      [] git = "diff_fails" ->
            [status_code |-> 500, detail |-> "Git error", diff |-> "", git |-> <<"status", "diff">>]
      [] git = "no_changes" ->
            [status_code |-> 200, detail |-> "", diff |-> "No changes to show",
             git |-> <<"status", "diff">>]
      [] git = "ok" ->
            [status_code |-> 200, detail |-> "", diff |-> "diff", git |-> <<"status", "diff">>]

\* lines 70-124
GetDiffAnswer(req) ==
    IF ~req.secret
    THEN HTTPException(500, "Diff viewer not configured (missing secret)")
    ELSE IF VerifyRaises(req.token) = "ExpiredSignatureError"
    THEN HTTPException(401, "Token expired")
    ELSE IF VerifyRaises(req.token) = "InvalidTokenError"
    THEN HTTPException(401, "Invalid token")
    \* line 101: "except Exception" catches what the try raised, the
    \* HTTPException of line 99 included
    ELSE IF ValidationRaises(req.token.repo_path, req.resolve_ok) # ""
    THEN HTTPException(400, "Invalid repository path")
    ELSE GitDiff(Resolve(req.token.repo_path), req.git)

get_diff(token, secret, resolve_ok, git) ==
    LET req == [token |-> token, secret |-> secret, resolve_ok |-> resolve_ok, git |-> git]
    IN  /\ diff_request' = <<req>>
        /\ diff_response' = <<GetDiffAnswer(req)>>
        /\ UNCHANGED NonDiffVars

DiffNext ==
    \E token \in Tokens, secret \in BOOLEAN, resolve_ok \in BOOLEAN,
       git \in {"ok", "no_changes", "status_fails", "diff_fails"} :
          get_diff(token, secret, resolve_ok, git)

DiffSpec == Init /\ [][DiffNext]_vars

-----------------------------------------------------------------------------
(* Properties of stream_message *)

Last(q) == q[Len(q)]

IsTextUpdate(u) == u.type = "assistant" /\ u.tool_calls = <<>> /\ u.content # <<>>
IsToolCallUpdate(u) == u.type = "assistant" /\ u.tool_calls # <<>>
IsTerminal(u) == u.type \in {"result", "error"}

\* the assistant text and tool-call updates of the current run, in order
AssistantUpdates == SelectSeq(yielded, LAMBDA u : u.type = "assistant")

RECURSIVE ConcatContents(_)
ConcatContents(us) ==
    IF us = <<>> THEN <<>> ELSE Head(us).content \o ConcatContents(Tail(us))

\* the blocks of this run that were met at or past total_blocks_seen
Processed == SubSeq(Streamed, seen0 + 1, Len(Streamed))

LastToolIn(bs) ==
    LET tools == {i \in DOMAIN bs : bs[i].type = "ToolUseBlock"}
    IN  IF tools = {} THEN 0 ELSE CHOOSE i \in tools : \A j \in tools : j <= i

\* the text blocks surfaced since the last tool block of this run, the
\* current_text_content they started from and the deltas yielded for them
Chain == SubSeq(Processed, LastToolIn(Processed) + 1, Len(Processed))
ChainStart == IF LastToolIn(Processed) = 0 THEN cur0 ELSE <<>>
ChainDeltas ==
    LET calls == {i \in DOMAIN yielded : IsToolCallUpdate(yielded[i])}
        from == IF calls = {} THEN 0 ELSE CHOOSE i \in calls : \A j \in calls : j <= i
    IN  SelectSeq(SubSeq(yielded, from + 1, Len(yielded)), IsTextUpdate)

ChainTexts == SelectSeq(Chain, LAMBDA b : b.type = "TextBlock")

Growing(bs) == \A i \in 2..Len(bs) : IsPrefix(bs[i - 1].text, bs[i].text)

\* C1: when the text blocks surfaced since current_text_content was empty grow
\* monotonically (each text extends the one before), the deltas yielded for
\* them, concatenated, are exactly the text of the last of them.
C1_DeltasRebuildText ==
    (pc # "idle" /\ left # "connect" /\ ChainTexts # <<>> /\ ChainStart = <<>>
                 /\ Growing(ChainTexts))
        => ConcatContents(ChainDeltas) = Last(ChainTexts).text

\* a text streamed as "a" and then "ab" has been surfaced as two deltas
C1_Witness ==
    /\ pc = "iter"
    /\ ChainStart = <<>>
    /\ Len(ChainTexts) = 2
    /\ ChainTexts[1].text = <<"a">>
    /\ ChainTexts[2].text = <<"a", "b">>
    /\ Len(ChainDeltas) = 2
    /\ ConcatContents(ChainDeltas) = <<"a", "b">>

\* the updates that surface a block in full
EventsOf(block) ==
    IF block.type = "ToolUseBlock" THEN <<ToolCallUpdate(block)>>
    ELSE IF block.type = "TextBlock" THEN <<TextUpdate(block.text)>>
    ELSE <<>>

\* the second run of the session replays blocks 0-2, which the first run
\* surfaced before its ResultMessage, and has then streamed block 3
ReplayThenBlock3 ==
    /\ turn = 2
    /\ mode = "replay"
    /\ base = 3
    /\ committed = 3
    /\ replayed = 3
    /\ Len(transcript) = 4

\* C2: in the second turn, which replays blocks 0-2 of the first turn and adds
\* block 3, the content updates yielded are exactly those of block 3, in full.
C2_OnlyBlock3Emitted ==
    ReplayThenBlock3 => AssistantUpdates = EventsOf(transcript[4])

\* C3: a run that has only replayed blocks which an earlier run consumed up to
\* its ResultMessage has yielded no assistant text and no tool call.
C3_ReplayEmitsNothing ==
    (pc # "idle" /\ mode = "replay" /\ Len(transcript) = base /\ replayed <= committed)
        => AssistantUpdates = <<>>

\* C4: total_blocks_seen of a session never decreases.
C4_BlocksSeenMonotone ==
    [][\A s \in DOMAIN session_states :
          session_states'[s].total_blocks_seen >= session_states[s].total_blocks_seen]_vars

NumTerminals == Cardinality({i \in DOMAIN yielded : IsTerminal(yielded[i])})

\* C5: a finished run has yielded exactly one result or error update, and it
\* is the last update yielded.
C5_ExactlyOneTerminal ==
    pc = "done" => (NumTerminals = 1 /\ IsTerminal(Last(yielded)))

\* C6: when receive_messages() raises, exactly one error update is yielded and
\* the session state keeps the values of the last update before the exception;
\* the next run of the session starts from them.
C6_ExceptionKeepsCheckpoint ==
    [][/\ (pc = "iter" /\ pc' = "done")
            => /\ yielded' = Append(yielded, ErrorUpdate)
               /\ session_states' = session_states
       /\ (left = "raise" /\ pc = "done" /\ pc' = "iter")
            => /\ session_states' = session_states
               /\ seen0' = session_states[session_id'].total_blocks_seen
               /\ cur0' = session_states[session_id'].current_text_content]_vars

\* receive_messages() has raised after the texts "a" and "ab" were surfaced:
\* one error update, and the session state as the text branch left it
C6_Witness ==
    /\ pc = "done"
    /\ left = "raise"
    /\ NumTerminals = 1
    /\ Last(yielded) = ErrorUpdate
    /\ current_block_index = 2
    /\ session_states[session_id] =
           [total_blocks_seen |-> 0, current_text_content |-> <<"a", "b">>]

-----------------------------------------------------------------------------
(* Properties of stream_handler *)

\* the update of the last stream_handler call
update_obj == Last(handled)

ToolEntries(evts, tool_id) ==
    {i \in DOMAIN evts : evts[i].type = "tool" /\ evts[i].id = tool_id}
RunningEntries(evts, tool_id) ==
    {i \in ToolEntries(evts, tool_id) : evts[i].status = "running"}

HelloScenario ==
    <<TextUpdate(<<"H", "e", "l">>),
      TextUpdate(<<"l", "o">>),
      StreamUpdate("assistant", <<>>, <<[name |-> "X", id |-> "1"]>>),
      ToolResultUpdate(<<[tool_use_id |-> "1", is_error |-> FALSE]>>)>>

\* C7: a text event grows the last entry when that entry is text and starts a
\* new text entry otherwise, leaving the other entries alone; the events
\* text "Hel", text "lo", tool-call 1 X, tool-result 1 leave text "Hello" and
\* tool X done.
C7_TextMergesIntoLastText ==
    /\ (handled # <<>> /\ IsTextUpdate(update_obj)) =>
          LET merged == before # <<>> /\ Last(before).type = "text"
              kept == IF merged THEN Len(before) - 1 ELSE Len(before)
          IN  /\ Len(events) = kept + 1
              /\ SubSeq(events, 1, kept) = SubSeq(before, 1, kept)
              /\ Last(events).type = "text"
              /\ Last(events).content =
                     (IF merged THEN Last(before).content ELSE <<>>) \o update_obj.content
    /\ handled = HelloScenario =>
          events = <<[type |-> "text", content |-> <<"H", "e", "l", "l", "o">>],
                     [type |-> "tool", name |-> "X", id |-> "1", status |-> "done"]>>

C7_Witness ==
    /\ handled = HelloScenario
    /\ Len(events) = 2
    /\ events[1].content = <<"H", "e", "l", "l", "o">>
    /\ events[2].status = "done"

\* C8: a tool-finish event whose id is carried by several tool entries flips
\* the last appended of them to done.
C8_FinishFlipsMostRecent ==
    (handled # <<>> /\ update_obj.type = "tool_result" /\ Len(update_obj.tool_calls) = 1) =>
        LET same == ToolEntries(before, update_obj.tool_calls[1].tool_use_id)
        IN  Cardinality(same) >= 2 =>
                events[CHOOSE i \in same : \A j \in same : j <= i].status = "done"

\* C9: a tool-result whose id matches exactly one running tool entry flips
\* that entry to done and changes nothing else in the log.
C9_ResultFlipsOnlyThatEntry ==
    (handled # <<>> /\ update_obj.type = "tool_result" /\ Len(update_obj.tool_calls) = 1) =>
        LET open == RunningEntries(before, update_obj.tool_calls[1].tool_use_id)
        IN  Cardinality(open) = 1 =>
                events = [before EXCEPT ![CHOOSE i \in open : TRUE].status = "done"]

\* C10: after a turn-result event has been handled no tool entry is running.
C10_ResultLeavesNoRunningTool ==
    (handled # <<>> /\ update_obj.type = "result") =>
        \A i \in DOMAIN events : events[i].type = "tool" => events[i].status = "done"

\* a turn-result handled while two tools were still running
C10_Witness ==
    /\ handled # <<>>
    /\ update_obj.type = "result"
    /\ Cardinality({i \in DOMAIN before :
                       before[i].type = "tool" /\ before[i].status = "running"}) = 2
    /\ \A i \in DOMAIN events : events[i].type = "tool" => events[i].status = "done"

\* C11: a tool-finish event none of whose ids is carried by a tool entry
\* leaves the Event Log exactly as it was; the call returns and the log stays
\* the one the next event is applied to.
C11_UnmatchedFinishDropped ==
    (handled # <<>> /\ update_obj.type = "tool_result"
        /\ \A k \in DOMAIN update_obj.tool_calls :
               ToolEntries(before, update_obj.tool_calls[k].tool_use_id) = {})
        => events = before

\* tool 1 is running and a finish for the unknown id 2 has been handled
C11_Witness ==
    /\ Len(handled) >= 2
    /\ update_obj = ToolResultUpdate(<<[tool_use_id |-> "2", is_error |-> FALSE]>>)
    /\ before = <<[type |-> "tool", name |-> "X", id |-> "1", status |-> "running"]>>
    /\ events = before

\* C12: a stream_handler call removes and moves no entry of the Event Log:
\* every entry keeps its index, its type and, for a tool entry, its name and
\* correlation id (a finished tool entry stays where it was).
C12_LogAppendOnly ==
    /\ Len(events) >= Len(before)
    /\ \A i \in DOMAIN before :
          /\ events[i].type = before[i].type
          /\ before[i].type = "tool" =>
                /\ events[i].name = before[i].name
                /\ events[i].id = before[i].id

\* tool 1 finishes while a later entry follows it in the log
C12_Witness ==
    /\ handled # <<>>
    /\ update_obj.type = "tool_result"
    /\ Len(before) >= 2
    /\ before[1] = [type |-> "tool", name |-> "X", id |-> "1", status |-> "running"]
    /\ events[1] = [type |-> "tool", name |-> "X", id |-> "1", status |-> "done"]
    /\ SubSeq(events, 2, Len(events)) = SubSeq(before, 2, Len(before))

-----------------------------------------------------------------------------
(* Properties of _update_stream_message and of the throttle *)

CeilDiv(a, b) == (a + b - 1) \div b

\* the calls the chunk loop of the last stream_handler call made
ChunkCalls == SelectSeq(api_calls, LAMBDA c : c.index >= 0)

CallsFor(cs, i) == {j \in DOMAIN cs : cs[j].index = i}

\* C13: no text passed to reply_text or edit_text is longer than CHUNK_SIZE; a
\* combined text of length L is cut into ceil(L / CHUNK_SIZE) chunks, chunk i
\* being its characters i * CHUNK_SIZE up to (i + 1) * CHUNK_SIZE, and these
\* are the texts the chunk loop passes.
C13_ChunksBounded ==
    LET text == CombinedText(events)
        chunks == Chunks(text)
    IN  /\ \A j \in DOMAIN api_calls : Len(api_calls[j].text) <= CHUNK_SIZE
        /\ Len(chunks) = CeilDiv(Len(text), CHUNK_SIZE)
        /\ \A k \in DOMAIN chunks :
              chunks[k] = [j \in 1..Min(CHUNK_SIZE, Len(text) - (k - 1) * CHUNK_SIZE) |->
                              text[(k - 1) * CHUNK_SIZE + j]]
        /\ \A j \in DOMAIN ChunkCalls :
              /\ ChunkCalls[j].index + 1 \in DOMAIN chunks
              /\ ChunkCalls[j].text = chunks[ChunkCalls[j].index + 1]

\* a transcript of CHUNK_SIZE + 2 characters has been sent as two chunks
C13_Witness ==
    /\ Len(CombinedText(events)) = CHUNK_SIZE + 2
    /\ renders = 1
    /\ Len(api_calls) = 2
    /\ api_calls[1].op = "send" /\ api_calls[1].ok /\ Len(api_calls[1].text) = CHUNK_SIZE
    /\ api_calls[2].op = "send" /\ api_calls[2].ok /\ Len(api_calls[2].text) = 2
    /\ Len(messages) = 2

\* C14: a render makes no Telegram call for a chunk whose content equals
\* message_contents at its index, and a render of an unchanged Event Log that
\* follows a render whose calls all returned makes no Telegram call at all.
C14_RenderIdempotent ==
    [][renders' = 1 =>
          LET chunks == RenderChunks(events')
          IN  /\ \A k \in DOMAIN chunks :
                    (k <= Len(message_contents) /\ message_contents[k] = chunks[k])
                        => CallsFor(api_calls', k - 1) = {}
              /\ (events' = events /\ messages # <<>> /\ message_contents = chunks)
                    => api_calls' = <<>>]_vars

\* the finish of tool 1 is handled a second time: the log and both stored
\* chunks are as the render before left them, and no call is made
C14_Witness ==
    /\ renders = 1
    /\ handled # <<>>
    /\ Branch(update_obj) = "tool_finish"
    /\ events = before
    /\ Len(messages) >= 1
    /\ message_contents = RenderChunks(events)
    /\ api_calls = <<>>

\* C15: once edit_text has raised for chunk i in a stream_handler call of the
\* turn, no later call of the turn calls edit_text for chunk i.
C15_FailedEditNotRetried ==
    \A j \in DOMAIN ChunkCalls :
        ChunkCalls[j].op = "edit" => ChunkCalls[j].index \notin edit_failed

Range(q) == {q[i] : i \in DOMAIN q}

\* C16: reply_text is called for chunk i only while messages has no entry at
\* index i; the message it returns becomes messages[i], and an entry of
\* messages is never replaced or removed while the turn lasts, so a chunk
\* index gets one message per turn and is edited from then on.
C16_HandleCreatedOnce ==
    [][/\ \A j \in DOMAIN ChunkCalls' :
             LET call == ChunkCalls'[j]
             IN  call.op = "send" =>
                     /\ call.index >= Len(messages)
                     /\ \A h \in CallsFor(ChunkCalls', call.index) : h = j
                     /\ call.ok =>
                            /\ call.index < Len(messages')
                            /\ messages'[call.index + 1] \notin Range(messages)
                            /\ messages'[call.index + 1] \notin DOMAIN chat
                            /\ chat'[messages'[call.index + 1]] = call.text
       /\ phase = "streaming" =>
             /\ Len(messages') >= Len(messages)
             /\ SubSeq(messages', 1, Len(messages)) = messages
             /\ Len(messages') - Len(messages) =
                    Cardinality({j \in DOMAIN ChunkCalls' :
                                    ChunkCalls'[j].op = "send" /\ ChunkCalls'[j].ok})]_vars

\* chunk 0, sent by an earlier render, is edited and chunk 1 is sent
C16_Witness ==
    /\ renders = 1
    /\ messages = <<1, 2>>
    /\ Len(message_contents) = 2
    /\ chat = message_contents
    /\ api_calls = <<Call("edit", 0, message_contents[1], TRUE),
                     Call("send", 1, message_contents[2], TRUE)>>

\* C17: while a turn lasts, through its renders and through its failure, the
\* number of chunk messages and the length of the combined text never
\* decrease, and every chunk message stays in the chat with a text that is
\* not blank.
C17_ChunksNeverRetracted ==
    [][phase = "streaming" =>
          /\ Len(messages') >= Len(messages)
          /\ Len(CombinedText(events')) >= Len(CombinedText(events))
          /\ \A i \in DOMAIN messages :
                /\ messages'[i] = messages[i]
                /\ messages[i] \in DOMAIN chat'
                /\ ~IsBlank(chat'[messages[i]])]_vars

\* run_command has raised after two chunks were streamed: both are still
\* in the chat, followed by the error message
C17_Witness ==
    /\ phase = "failed"
    /\ Len(messages) = 2
    /\ Len(chat) = 3
    /\ chat[messages[1]] = message_contents[1]
    /\ chat[messages[2]] = message_contents[2]
    /\ Len(message_contents[1]) = CHUNK_SIZE
    /\ chat[3] = ErrorText

\* C18: of two text events handled 0.1 s apart at the start of a turn, the
\* second with a delta of at most LONG_DELTA characters, exactly one makes
\* stream_handler call _update_stream_message.
C18_OneRenderForTwoTexts ==
    [][(/\ Len(handled) = 1
        /\ Len(handled') = 2
        /\ Branch(handled'[1]) = "text"
        /\ Branch(handled'[2]) = "text"
        /\ Len(handled'[2].content) <= LONG_DELTA
        /\ current_time' - current_time = 1)
          => renders + renders' = 1]_vars

\* C19: a text event whose delta is longer than LONG_DELTA characters makes
\* stream_handler call _update_stream_message.
C19_LongDeltaRenders ==
    (phase = "streaming" /\ handled # <<>> /\ Branch(update_obj) = "text"
        /\ Len(update_obj.content) > LONG_DELTA)
        => renders = 1

\* C20: every tool-start, tool-finish and turn-result event makes
\* stream_handler call _update_stream_message, whatever the time since the
\* call before.
C20_ToolEventsAlwaysRender ==
    (phase = "streaming" /\ handled # <<>>
        /\ Branch(update_obj) \in {"tool_start", "tool_finish", "result"})
        => renders = 1

\* a tool-start, its finish and the turn's result, 0.1 s apart, each rendered
C20_Witness ==
    /\ phase = "streaming"
    /\ Len(handled) = 3
    /\ Branch(handled[1]) = "tool_start"
    /\ Branch(handled[2]) = "tool_finish"
    /\ Branch(handled[3]) = "result"
    /\ current_time = 3
    /\ renders = 1
    /\ messages # <<>>
    /\ events = <<[type |-> "tool", name |-> "X", id |-> "1", status |-> "done"]>>

\* the places of the rendered text where a separator line "---" starts
SeparatorsIn(text) ==
    {i \in 1..(Len(text) - 2) : SubSeq(text, i, i + 2) = <<"-", "-", "-">>}

\* the text entries of a log that have a tool entry somewhere before them
TextsAfterTool(evts) ==
    {i \in DOMAIN evts :
        evts[i].type = "text" /\ \E j \in 1..(i - 1) : evts[j].type = "tool"}

\* C30: the rendered text of an Event Log has no separator line when no text
\* entry follows a tool entry and exactly one otherwise, right before the
\* first text entry that follows a tool entry.
C30_OneSeparator ==
    LET text == CombinedText(events)
        after == TextsAfterTool(events)
    IN  IF after = {} THEN SeparatorsIn(text) = {}
        ELSE LET first == CHOOSE i \in after : \A j \in after : i <= j
                 prefix == CombinedText(SubSeq(events, 1, first - 1))
             IN  SeparatorsIn(text) = {Len(prefix) + 3}

\* the plain retries among the calls of the last stream_handler call
RetryCalls == {j \in DOMAIN api_calls : api_calls[j].index = -1}

\* C22: the plain retry that follows a rejected call of the chunk loop comes
\* once, passes the text of the rejected call and goes to the same chunk: when
\* it returns, that chunk has a message in messages and the message shows the
\* text.
C22_PlainRetrySameChunk ==
    phase = "streaming" =>
        \A j \in RetryCalls :
            /\ j = Len(api_calls)
            /\ j > 1
            /\ api_calls[j].text = api_calls[j - 1].text
            /\ api_calls[j].ok =>
                  LET k == api_calls[j - 1].index + 1
                  IN  /\ k <= Len(messages)
                      /\ chat[messages[k]] = api_calls[j].text

\* C23: whatever reply_text and edit_text raise in a stream_handler call, no
\* exception leaves the call, the Event Log is the one the update alone
\* produces, and the turn goes on streaming.
C23_TransportFailureNotFatal ==
    /\ phase # "raising"
    /\ (phase = "streaming" /\ handled # <<>>) => events = ApplyUpdate(before, update_obj)
    /\ (renders = 1 /\ \E j \in DOMAIN api_calls : ~api_calls[j].ok) => phase = "streaming"

\* a send and its plain retry have both failed, and the update is in the log
C23_Witness ==
    /\ phase = "streaming"
    /\ Len(api_calls) = 2
    /\ ~api_calls[1].ok
    /\ api_calls[2].index = -1 /\ ~api_calls[2].ok
    /\ events # before

\* C25: when the turn's result event has been handled, or when run_command
\* has raised, and the last calls made all returned, the chunk messages hold
\* the whole Event Log, text included.
C25_FinalRenderComplete ==
    ((phase = "failed" \/ (phase = "streaming" /\ handled # <<>> /\ update_obj.type = "result"))
        /\ \A j \in DOMAIN api_calls : api_calls[j].ok)
        => message_contents = RenderChunks(events)

\* C29: a run started with restart=True starts from total_blocks_seen = 0
\* and an empty current_text_content, whatever earlier runs of the session
\* left.
C29_RestartDiscardsState ==
    (pc # "idle" /\ restart) => (seen0 = 0 /\ cur0 = <<>>)

-----------------------------------------------------------------------------
(* Properties of the turn in handle_text_message *)

AfterFinally == {"respond", "enhance", "outer_except", "end"}

\* C24: every exit of run_command, returning or raising, goes through the
\* finally clause; the handler goes on only when the typing task has
\* finished, and from then on no typing action is issued.
C24_TypingTaskAwaited ==
    [][/\ step = "run_command" => step' \in {"run_command", "finally"}
       /\ step \in AfterFinally =>
            /\ typing_task = "done"
            /\ typing_actions' = typing_actions]_vars

\* a failed turn has ended; its typing task had issued actions and was
\* cancelled while running
C24_Witness ==
    /\ step = "end"
    /\ ~claude_response
    /\ typing_actions = MaxTyping
    /\ typing_task = "done"

\* C26: when a turn has ended, the stored session id is the one the agent
\* used for the turn, whether the turn succeeded or failed.
C26_SessionIdStoredAlways ==
    step = "end" => claude_session_id = agent_session

\* C27: in a failed turn the error summary is sent once, and when the turn
\* has ended no second error message has followed it.
C27_OneErrorMessage ==
    /\ (step = "enhance" /\ ~claude_response) => error_messages = 1
    /\ (step = "end" /\ ~claude_response) => error_messages <= 1

-----------------------------------------------------------------------------
(* Properties of overlapping renders and of overlapping turns *)

InRegion == {t \in Tasks : task_pc[t] = "region"}

\* C21: at most one task is inside the region of _update_stream_message;
\* the lock is held exactly while a task is inside, so every exit, the early
\* return and the failed send included, has released it; and the writes of
\* a render all come before the writes of the render that entered after it.
C21_RendersSerialized ==
    /\ Cardinality(InRegion) <= 1
    /\ update_lock <=> InRegion # {}
    /\ \A i \in 1..Len(writes) - 1 : writes[i] <= writes[i + 1]

\* a second trigger waits while the first render, which has made a
\* transport call, still has a chunk to send
C21_Witness ==
    /\ task_pc["t1"] = "region"
    /\ pending["t1"] > 0
    /\ writes # <<>>
    /\ writes[Len(writes)] = render_of["t1"]
    /\ task_pc["t2"] = "waiting"

-----------------------------------------------------------------------------
(* Properties of the block branches of stream_message *)

\* a step that handles a content block, and the block it handles
BlockStep == pc = "iter" /\ (transcript' # transcript \/ replayed' # replayed)
StepBlock == IF transcript' # transcript THEN Last(transcript') ELSE transcript[replayed']

AtCursor == current_block_index >= session_states[session_id].total_blocks_seen

ToolSurfaced == \E i \in DOMAIN yielded : IsToolCallUpdate(yielded[i])

\* C31: a tool block met at the cursor yields one tool-call update, empties
\* current_text_content and sets total_blocks_seen to the cursor past the
\* block; a text block that comes right after a tool block surfaced in the
\* same run is yielded in full.
C31_ToolBlockResetsText ==
    [][BlockStep =>
        /\ (StepBlock.type = "ToolUseBlock" /\ AtCursor) =>
              /\ yielded' = Append(yielded, ToolCallUpdate(StepBlock))
              /\ current_block_index' = current_block_index + 1
              /\ session_states'[session_id] =
                    [total_blocks_seen |-> current_block_index + 1,
                     current_text_content |-> <<>>]
        /\ (StepBlock.type = "TextBlock" /\ ToolSurfaced /\ Streamed # <<>>
                /\ Last(Streamed).type = "ToolUseBlock") =>
              yielded' = Append(yielded, TextUpdate(StepBlock.text))]_vars

\* the text "ab" was surfaced, then a tool block, then the text "a", which
\* was yielded in full
C31_Witness ==
    /\ pc = "iter"
    /\ Len(Streamed) = 3
    /\ Streamed[1] = TextBlock(<<"a", "b">>)
    /\ Streamed[2].type = "ToolUseBlock"
    /\ Streamed[3] = TextBlock(<<"a">>)
    /\ AssistantUpdates = <<TextUpdate(<<"a", "b">>), ToolCallUpdate(Streamed[2]),
                            TextUpdate(<<"a">>)>>

NoThinking == \A i \in DOMAIN Streamed : Streamed[i].type # "ThinkingBlock"

\* C32: after a ResultMessage total_blocks_seen is the cursor, whatever the
\* last block was; in a run of text and tool blocks it is the number of
\* blocks the stream has carried, a final text block included.
C32_ResultMarksAllSeen ==
    (left = "result" /\ pc \in {"closing", "done"}) =>
        /\ session_states[session_id].total_blocks_seen = current_block_index
        /\ NoThinking => session_states[session_id].total_blocks_seen = Len(Streamed)

\* a run of two text blocks, which the text branch does not count, has ended
\* with a ResultMessage
C32_Witness ==
    /\ left = "result"
    /\ pc = "done"
    /\ Len(Streamed) = 2
    /\ \A i \in DOMAIN Streamed : Streamed[i].type = "TextBlock"
    /\ seen0 = 0
    /\ session_states[session_id].total_blocks_seen = 2

\* C34: a text block met at the cursor after another text was surfaced with
\* no tool block since, and whose text is not that text, is yielded in full.
C34_NewTextBlockInFull ==
    [][(BlockStep /\ StepBlock.type = "TextBlock" /\ AtCursor
            /\ session_states[session_id].current_text_content # <<>>
            /\ StepBlock.text # session_states[session_id].current_text_content)
          => yielded' = Append(yielded, TextUpdate(StepBlock.text))]_vars

-----------------------------------------------------------------------------
(* Properties of ContextManager *)

\* what the state of a chat and thread holds for a field, read without
\* creating anything
Stored(chat_id, thread_id, field) ==
    LET data == chat_data[chat_id]
        key == get_context_key(chat_id, thread_id)
    IN  IF "topic_states" \in DOMAIN data /\ key \in DOMAIN data.topic_states
        THEN StateGet(data.topic_states[key], field)
        ELSE Default(field)

\* C33: a get returns the value last set for its chat, thread and field, or
\* the field's default when none was set; and what is stored for every chat,
\* thread and field is the value last set for it, so a set under one key
\* changes nothing under another.
C33_StateScopedPerKey ==
    /\ returned # <<>> =>
          returned[1].value = written[<<returned[1].chat_id, returned[1].thread_id,
                                        returned[1].field>>]
    /\ \A c \in ChatIds, t \in ThreadIds, f \in Fields : Stored(c, t, f) = written[<<c, t, f>>]

\* the session id was set in thread 1 of chat 1 and the status in the chat
\* itself; the get in thread 1 returns the session id, the chat has none
C33_Witness ==
    /\ returned = <<[chat_id |-> 1, thread_id |-> 1, field |-> "claude_session_id",
                     value |-> "s1"]>>
    /\ written[<<1, 0, "current_status">>] = "processing"
    /\ Stored(1, 0, "claude_session_id") = ""
    /\ Stored(11, 1, "claude_session_id") = ""

-----------------------------------------------------------------------------
(* Properties of PinnedMessageManager.update_status *)

PinInside == {p \in PinTasks : pin_pc[p] \notin {"idle", "waiting"}}

SentFor(k) == {i \in DOMAIN status_sent : status_sent[i] = k}

LastSentFor(k) == IF SentFor(k) = {} THEN 0 ELSE CHOOSE i \in SentFor(k) : \A j \in SentFor(k) : j <= i

\* C39: at most one update_status call is inside the lock; a context key
\* gets a new status message only while it has none or after an edit of its
\* message has failed, so of two racing calls one sends and the other edits;
\* and when no call is inside, pinned_message_id of every key is the id of
\* the status message sent last for it.
C39_StatusUpdatesSerialized ==
    /\ Cardinality(PinInside) <= 1
    /\ \A k \in ContextKeys : Cardinality(SentFor(k)) <= 1 + pin_edit_failures[k]
    /\ PinInside = {} => \A k \in ContextKeys : pinned_ids[k] = LastSentFor(k)

\* two calls for k1 raced while it had no pinned message: one status message
\* was sent, the other call has edited it, and both have returned
C39_Witness ==
    /\ pin_raced["k1"]
    /\ \A p \in PinTasks : pin_pc[p] = "idle"
    /\ status_sent = <<"k1">>
    /\ status_edits = <<1>>
    /\ pinned_ids["k1"] = 1

-----------------------------------------------------------------------------
(* Properties of get_diff *)

\* C40: a request with the secret configured and a signed, unexpired token
\* whose repo_path resolves outside the approved directory is answered with
\* status 403 "Access denied", with no git command run and no diff.
C40_OutsidePathDenied ==
    (/\ diff_request # <<>>
     /\ diff_request[1].secret
     /\ diff_request[1].token.signed
     /\ ~diff_request[1].token.expired
     /\ diff_request[1].resolve_ok
     /\ ~IsRelativeTo(Resolve(diff_request[1].token.repo_path), approved_directory))
        => /\ diff_response[1].status_code = 403
           /\ diff_response[1].detail = "Access denied"
           /\ diff_response[1].git = <<>>
           /\ diff_response[1].diff = ""

-----------------------------------------------------------------------------
(* Properties of the final response *)

\* C38: in a turn whose run_command returned and that streamed chunk
\* messages, the formatted response is not sent, whatever its text holds.
C38_NoFinalResponseAfterStreaming ==
    (claude_response /\ streamed /\ step \in {"enhance", "outer_except", "end"})
        => responses = 0

-----------------------------------------------------------------------------
(* Properties of Render State and of the entries of the Event Log *)

\* C35: messages and message_contents have the same length, and the content
\* stored for a chunk message is the text of the last send or edit of it
\* that returned, whatever calls have failed.
C35_RenderStateConsistent ==
    /\ Len(messages) = Len(message_contents)
    /\ \A i \in DOMAIN messages :
          /\ messages[i] \in DOMAIN chat
          /\ message_contents[i] = chat[messages[i]]

\* an edit of the first chunk message has failed in the last call: the
\* content stored for it is still the text the message shows
C35_Witness ==
    /\ messages # <<>>
    /\ Len(message_contents) = Len(messages)
    /\ \E j \in DOMAIN api_calls :
          /\ api_calls[j].op = "edit"
          /\ ~api_calls[j].ok
          /\ api_calls[j].index = 0
          /\ message_contents[1] # api_calls[j].text
          /\ message_contents[1] = chat[messages[1]]

\* C36: no two adjacent entries of the Event Log are text entries.
C36_NoAdjacentTexts ==
    \A i \in 1..(Len(events) - 1) : ~(events[i].type = "text" /\ events[i + 1].type = "text")

\* two text updates that followed a tool start were merged into the one
\* text entry after the tool entry
C36_Witness ==
    /\ Len(handled) = 4
    /\ IsTextUpdate(handled[3])
    /\ IsTextUpdate(handled[4])
    /\ Len(events) = 3
    /\ events[1].type = "text"
    /\ events[2].type = "tool"
    /\ events[3] = TextEvent(handled[3].content \o handled[4].content)

\* C37: in a turn, a tool entry that is done stays in its place and stays
\* done, whatever update is handled next.
C37_DoneStaysDone ==
    [][handled' # <<>> =>
          \A i \in DOMAIN events :
              (events[i].type = "tool" /\ events[i].status = "done")
                  => (i \in DOMAIN events' /\ events'[i] = events[i])]_vars

\* a tool start has repeated the id of an entry that is done: the entry is
\* still done and the new entry is running
C37_Witness ==
    /\ Len(events) = 2
    /\ events[1] = [ToolEvent([name |-> "X", id |-> "1"]) EXCEPT !.status = "done"]
    /\ events[2] = ToolEvent([name |-> "X", id |-> "1"])
    /\ IsToolCallUpdate(handled[Len(handled)])

====
